---- MODULE Spec2Model ----
(***************************************************************************)
(* Verification model of the leadtrail enrichment core.                    *)
(*                                                                         *)
(*   - WebsiteCrawlerV3 (portal/modules/website_crawler_v3.py): the        *)
(*     two-phase precision crawl of one domain and the thread pool that    *)
(*     crawls and ranks a list of domains.                                 *)
(*   - VATLookupClient (portal/modules/vat_lookup.py): the name-variant    *)
(*     loop, the retry loop and the results-table parser.                  *)
(*                                                                         *)
(* Text is a sequence of one-character strings, so that normalisation,     *)
(* case folding and substring search are computed and not assumed.         *)
(* Scores are in hundredths: 1.0 is 100, 0.75 is 75, 2.0 is 200.           *)
(***************************************************************************)
EXTENDS Integers, Sequences, FiniteSets, Bags, TLC

VARIABLES
    \* ---- crawl_and_rank_websites: arguments
    domains,          \* List[str] of candidate domains
    company_data,     \* [company_number, vat_number], <<>> when absent
    skip_domains,     \* the skip list, <<>> when None
    \* ---- crawl_and_rank_websites: locals of the calling thread
    mainpc,           \* "call" | "collect" | "shutdown" | "done"
    filtered_domains, \* domains left after the skip list
    results,          \* results appended while collecting the futures
    waiting,          \* index of the future the caller waits on
    ranked,           \* the returned list
    \* ---- the executor's tasks, one per filtered domain
    task,             \* task[i]: the frame of _crawl_single_website
    log,              \* log[i]: the requests and sleeps of task i, in order
    ran,              \* ran[i]: how long task i has been crawled, in ticks
    waited,           \* how long the caller has waited on the current future
    \* ---- lookup_vat_by_company_name
    vat_pc,           \* "idle" | "call" | "loop" | "done"
    vat_name,         \* the company_name argument
    search_variations,
    variation_index,  \* 0-based, as enumerate() counts
    attempt,          \* 0-based, as range(max_retries) counts
    vat_out,          \* the returned VATData, or NoData
    vat_trace,        \* per request: the variant, the session, the response type
    \* ---- WebsiteHunterClient
    query_version,    \* self.query_version
    hunt_pc,          \* "idle" | "call" | "quota" | "search" | "done"
    hunt_args,        \* the method called and its arguments
    quota_remaining,  \* the local of find_company_website
    hunt_log,         \* the rate-limit checks and requests of the call, in order
    hunt_out,         \* what the call returned or raised
    hunt_prev,        \* how the last failed search before this call failed
    since_last,       \* ticks since last_request_time, counted up to the delay
    last_gap,         \* ticks between the last outbound call and the one before
    \* ---- LinkedInFinder.find_linkedin_profiles
    li_pc,            \* "idle" | "call" | "search" | "done"
    li_args,          \* company_name and website
    li_response,      \* the answer to the search request
    li_out,           \* the returned LinkedInSearchResult
    \* ---- ContactExtractor._extract_phone_numbers
    ph_pc,            \* "idle" | "call" | "done"
    ph_args,          \* the number on the page, its format, the page
    ph_out,           \* the returned list, as the set of its members
    \* ---- ContactExtractor.extract_contact_info
    ce_pc,            \* "idle" | "call" | "crawl" | "done"
    unique_urls,      \* the pages to crawl
    ce_next,          \* the position of the loop in unique_urls, from 1
    ce_pages_crawled, \* the local pages_crawled
    pages_with_info,  \* the local pages_with_info
    contact_info,     \* the ContactInformation being filled
    ce_out,           \* what the call returned or raised
    ce_log,           \* per page requested: the URL, the answer, the lists
    \* ---- CompaniesHouseAPIClient._make_api_request
    ch_pc,            \* "idle" | "request" | "done"
    ch_args,          \* the endpoint asked for
    ch_depth,         \* frames of _make_api_request on the stack, less one
    requests_made,    \* self.requests_made
    ch_log,           \* the status codes answered to the call in hand
    ch_out,           \* what the call returned or raised
    \* ---- the website contact finder task and the review screen
    hunting_results,  \* WebsiteHuntingResult per company
    contact_lookups,  \* WebsiteContactLookup per company, None when absent
    cf_pc,            \* "idle" | "loop"
    companies_to_process, \* the rows the run selected, as it loaded them
    cf_next,          \* the position of the loop in companies_to_process
    extractor_calls,  \* the calls of extract_contact_info made so far
    processed,        \* the companies _process_contact_extraction was run for
    cf_summary        \* what the last run returned

crawl_vars == <<domains, company_data, skip_domains, mainpc, filtered_domains,
                results, waiting, ranked, task, log, ran, waited>>
vat_vars == <<vat_pc, vat_name, search_variations, variation_index, attempt,
              vat_out, vat_trace>>
hunter_vars == <<query_version, hunt_pc, hunt_args, quota_remaining, hunt_log,
                 hunt_out, hunt_prev, since_last, last_gap>>
linkedin_vars == <<li_pc, li_args, li_response, li_out>>
phone_vars == <<ph_pc, ph_args, ph_out>>
contact_vars == <<ce_pc, unique_urls, ce_next, ce_pages_crawled, pages_with_info,
                  contact_info, ce_out, ce_log>>
ch_vars == <<ch_pc, ch_args, ch_depth, requests_made, ch_log, ch_out>>
finder_vars == <<hunting_results, contact_lookups, cf_pc, companies_to_process,
                 cf_next, extractor_calls, processed, cf_summary>>
vars == <<crawl_vars, vat_vars, hunter_vars, linkedin_vars, phone_vars,
          contact_vars, ch_vars, finder_vars>>

\* what the steps of one component leave alone
not_crawl_vars == <<vat_vars, hunter_vars, linkedin_vars, phone_vars, contact_vars,
    ch_vars, finder_vars>>
not_vat_vars == <<crawl_vars, hunter_vars, linkedin_vars, phone_vars, contact_vars,
    ch_vars, finder_vars>>
not_hunter_vars == <<crawl_vars, vat_vars, linkedin_vars, phone_vars, contact_vars,
    ch_vars, finder_vars>>
not_linkedin_vars == <<crawl_vars, vat_vars, hunter_vars, phone_vars, contact_vars,
    ch_vars, finder_vars>>
not_phone_vars == <<crawl_vars, vat_vars, hunter_vars, linkedin_vars, contact_vars,
    ch_vars, finder_vars>>
not_contact_vars == <<crawl_vars, vat_vars, hunter_vars, linkedin_vars, phone_vars,
    ch_vars, finder_vars>>
not_ch_vars == <<crawl_vars, vat_vars, hunter_vars, linkedin_vars, phone_vars,
    contact_vars, finder_vars>>
not_finder_vars == <<crawl_vars, vat_vars, hunter_vars, linkedin_vars, phone_vars,
    contact_vars, ch_vars>>

---------------------------------------------------------------------------
(* Bounds of the model *)

\* longest domain list handed to crawl_and_rank_websites
MaxDomains == 2
\* most anchors a homepage carries
MaxAnchors == 2
\* CrawlConfigV3.max_target_pages the crawler is configured with
max_target_pages == 1
\* CrawlConfigV3.max_additional_pages the crawler is configured with
max_additional_pages == 2
\* most data rows of a VAT results table
MaxRows == 2
\* most organic results of a search answer
MaxResults == 2
\* sys.getrecursionlimit(), in frames of _make_api_request
recursion_limit == 4
\* CompaniesHouseAPIClient.rate_limit (COMPANIES_HOUSE_RATE_LIMIT, 600)
rate_limit == 2
\* the companies of the campaign under review
MaxCompanies == 2
\* DEFAULT_BATCH_SIZE of task_website_contact_finder.py
DEFAULT_BATCH_SIZE == 3
\* WebsiteHunterClient.min_request_delay (1.0 second), in ticks of the clock
min_request_delay == 2
\* longest domain list of a timed crawl_and_rank_websites call
MaxPoolDomains == 3
\* CrawlConfigV3.timeout_seconds * 3 of line 596, in ticks of the clock
pool_deadline == 2
\* most organic results of a LinkedIn search answer
MaxProfiles == 2
\* ContactCrawlConfig.max_pages_per_site the extractor is configured with
max_pages_per_site == 3
\* ContactCrawlConfig.max_phone_numbers the extractor is configured with
max_phone_numbers == 1
\* ContactCrawlConfig.max_email_addresses the extractor is configured with
max_email_addresses == 1
\* ContactCrawlConfig.max_social_links_per_platform the extractor is configured with
max_social_links_per_platform == 1

\* CrawlConfigV3.max_concurrent_sites as the website hunting task sets it
max_concurrent_sites == 2
\* VATLookupClient.max_retries
max_retries == 3

---------------------------------------------------------------------------
(* Text *)

Range(s) == {s[i] : i \in 1..Len(s)}

\* str.upper(), per character
UpperChar(c) ==
    CASE c = "a" -> "A" [] c = "b" -> "B" [] c = "c" -> "C" [] c = "d" -> "D"
      [] c = "e" -> "E" [] c = "f" -> "F" [] c = "g" -> "G" [] c = "h" -> "H"
      [] c = "i" -> "I" [] c = "j" -> "J" [] c = "k" -> "K" [] c = "l" -> "L"
      [] c = "m" -> "M" [] c = "n" -> "N" [] c = "o" -> "O" [] c = "p" -> "P"
      [] c = "q" -> "Q" [] c = "r" -> "R" [] c = "s" -> "S" [] c = "t" -> "T"
      [] c = "u" -> "U" [] c = "v" -> "V" [] c = "w" -> "W" [] c = "x" -> "X"
      [] c = "y" -> "Y" [] c = "z" -> "Z"
      [] OTHER -> c

\* str.lower(), per character
LowerChar(c) ==
    CASE c = "A" -> "a" [] c = "B" -> "b" [] c = "C" -> "c" [] c = "D" -> "d"
      [] c = "E" -> "e" [] c = "F" -> "f" [] c = "G" -> "g" [] c = "H" -> "h"
      [] c = "I" -> "i" [] c = "J" -> "j" [] c = "K" -> "k" [] c = "L" -> "l"
      [] c = "M" -> "m" [] c = "N" -> "n" [] c = "O" -> "o" [] c = "P" -> "p"
      [] c = "Q" -> "q" [] c = "R" -> "r" [] c = "S" -> "s" [] c = "T" -> "t"
      [] c = "U" -> "u" [] c = "V" -> "v" [] c = "W" -> "w" [] c = "X" -> "x"
      [] c = "Y" -> "y" [] c = "Z" -> "z"
      [] OTHER -> c

Upper(s) == [i \in 1..Len(s) |-> UpperChar(s[i])]
Lower(s) == [i \in 1..Len(s) |-> LowerChar(s[i])]

\* what the regex class \s and str.strip() treat as white space
IsSpace(c) == c \in {" ", "\n", "\t"}

IsDigit(c) == c \in {"0", "1", "2", "3", "4", "5", "6", "7", "8", "9"}

NotSpace(c) == ~IsSpace(c)

\* Python's  a in b  for strings
IsSubstr(a, b) ==
    \E i \in 1..(Len(b) - Len(a) + 1) : SubSeq(b, i, i + Len(a) - 1) = a

---------------------------------------------------------------------------
(* WebsiteCrawlerV3: pure parts *)

\* _normalize_text: upper case, every white space removed
normalize_text(text) ==
    IF text = <<>> THEN <<>> ELSE SelectSeq(Upper(text), NotSpace)

\* CrawlConfigV3.target_page_keywords
target_page_keywords ==
    << <<"a","b","o","u","t">>, <<"c","o","n","t","a","c","t">>,
       <<"p","r","i","v","a","c","y">>, <<"t","e","r","m","s">>,
       <<"l","e","g","a","l">>, <<"d","i","s","c","l","a","i","m","e","r">>,
       <<"c","o","o","k","i","e">>, <<"p","o","l","i","c","y">>,
       <<"c","o","m","p","a","n","y">>,
       <<"i","n","f","o","r","m","a","t","i","o","n">> >>

\* a URL of the crawled domain: its scheme and its path
Url(scheme, path) == [scheme |-> scheme, path |-> path]
NoUrl == Url("", <<>>)

\* the test of _categorize_pages: a keyword occurs in the lower-cased path
IsTargetUrl(url) ==
    \E k \in 1..Len(target_page_keywords) :
        IsSubstr(target_page_keywords[k], Lower(url.path))

IsNonTargetUrl(url) == ~IsTargetUrl(url)

\* _categorize_pages: both lists keep the order of all_links
categorize_pages(all_links) ==
    [target_pages |-> SelectSeq(all_links, IsTargetUrl),
     non_target_pages |-> SelectSeq(all_links, IsNonTargetUrl)]

\* _extract_text_content: the text of the page without script and style
extract_text_content(html) == html.text

\* re.sub(r'^GB', '', s)
StripGBPrefix(s) ==
    IF Len(s) >= 2 /\ s[1] = "G" /\ s[2] = "B" THEN SubSeq(s, 3, Len(s)) ELSE s

\* _check_exact_matches
check_exact_matches(text_content, cd) ==
    LET normalized_content == normalize_text(text_content)
        normalized_company_number == normalize_text(cd.company_number)
        normalized_vat_full == normalize_text(cd.vat_number)
        vat_numeric == StripGBPrefix(normalized_vat_full)
    IN  [company_number_found |->
            /\ cd.company_number # <<>>
            /\ normalized_company_number # <<>>
            /\ IsSubstr(normalized_company_number, normalized_content),
         vat_number_found |->
            /\ cd.vat_number # <<>>
            /\ \/ /\ normalized_vat_full # <<>>
                  /\ IsSubstr(normalized_vat_full, normalized_content)
               \/ /\ vat_numeric # <<>>
                  /\ vat_numeric # normalized_vat_full
                  /\ IsSubstr(vat_numeric, normalized_content)]

\* PrecisionMatch(identifier, False)
PrecisionMatch(identifier) ==
    [identifier |-> identifier, found |-> FALSE, page_type |-> "None",
     page_url |-> NoUrl, score_weight |-> 0]

\* set_match giving every page type the weight of a target page
set_match_flat(m, page_type, page_url) ==
    [m EXCEPT !.found = TRUE, !.page_type = page_type, !.page_url = page_url,
              !.score_weight = 100]

\* PrecisionMatch.set_match
set_match(m, page_type, page_url) ==
    [m EXCEPT !.found = TRUE, !.page_type = page_type, !.page_url = page_url,
              !.score_weight = IF page_type = "TARGET" THEN 100 ELSE 75]

\* the entries a crawl leaves in its log
GetEvent(phase, url) == [op |-> "get", phase |-> phase, url |-> url]
SleepEvent(phase) == [op |-> "sleep", phase |-> phase, url |-> NoUrl]
\* what _check_exact_matches reported for the page fetched from url
CheckEvent(phase, url, page_matches) ==
    [op |-> "check", phase |-> phase, url |-> url, matches |-> page_matches]

\* one pass of the for loop of _crawl_pages_phase over phase_pages[k..]
RECURSIVE PhaseLoop(_, _, _, _, _, _, _)
PhaseLoop(phase_pages, resp, page_type, cd, max_pages, k, acc) ==
    IF k > Len(phase_pages) THEN acc
    ELSE IF acc.pages_crawled >= max_pages THEN acc
    ELSE IF acc.company_number_match.found /\ acc.vat_number_match.found THEN acc
    ELSE
      LET url == phase_pages[k]
          r == resp[k]
          got == Append(acc.log, GetEvent(page_type, url))
      IN  IF r.exc # "" THEN
              \* except ...: continue  (the sleep is skipped)
              PhaseLoop(phase_pages, resp, page_type, cd, max_pages, k + 1,
                        [acc EXCEPT !.log = got])
          ELSE IF r.status_code = 200 THEN
              LET page_matches ==
                      check_exact_matches(extract_text_content(r.html), cd)
                  cn == IF page_matches.company_number_found
                           /\ ~acc.company_number_match.found
                        THEN set_match(acc.company_number_match, page_type, url)
                        ELSE acc.company_number_match
                  vat == IF page_matches.vat_number_found
                            /\ ~acc.vat_number_match.found
                         THEN set_match(acc.vat_number_match, page_type, url)
                         ELSE acc.vat_number_match
              IN  PhaseLoop(phase_pages, resp, page_type, cd, max_pages, k + 1,
                      [company_number_match |-> cn,
                       vat_number_match |-> vat,
                       pages_crawled |-> acc.pages_crawled + 1,
                       log |-> got \o <<CheckEvent(page_type, url, page_matches),
                                       SleepEvent(page_type)>>])
          ELSE
              PhaseLoop(phase_pages, resp, page_type, cd, max_pages, k + 1,
                        [acc EXCEPT !.log = Append(got, SleepEvent(page_type))])

\* pages[:max_pages]
Take(s, n) == SubSeq(s, 1, IF Len(s) < n THEN Len(s) ELSE n)

\* a phase that walks the whole list
phase_pages_uncapped(pages, max_pages) == pages

\* line 367: phase_pages = pages[:max_pages]
phase_pages(pages, max_pages) == Take(pages, max_pages)

\* _crawl_pages_phase: the matches, the page count and the requests made
crawl_pages_phase(pages, resp, page_type, cd, max_pages) ==
    PhaseLoop(phase_pages(pages, max_pages), resp, page_type, cd, max_pages, 1,
              [company_number_match |-> PrecisionMatch("company_number"),
               vat_number_match |-> PrecisionMatch("vat_number"),
               pages_crawled |-> 0,
               log |-> <<>>])

\* the score of _crawl_single_website: the weights of the matches found
total_score_of(company_number_match, vat_number_match) ==
    (IF company_number_match.found THEN company_number_match.score_weight ELSE 0)
    + (IF vat_number_match.found THEN vat_number_match.score_weight ELSE 0)

\* the WebsiteScoreV3 a completed crawl returns
score_result(domain, cn, vat, target_crawled, non_target_crawled, phases) ==
    LET total_score == total_score_of(cn, vat)
    IN  [domain |-> domain,
         total_score |-> total_score,
         company_number_match |-> cn,
         vat_number_match |-> vat,
         pages_crawled |-> target_crawled + non_target_crawled,
         target_pages_crawled |-> target_crawled,
         non_target_pages_crawled |-> non_target_crawled,
         crawl_status |-> IF total_score > 0 THEN "SUCCESS" ELSE "NO_MATCHES_FOUND",
         processing_notes |-> IF total_score > 0 THEN "Found" ELSE "No exact matches",
         search_phases_completed |-> phases]

\* the status _create_error_result gives every failed crawl
error_status == "CRAWL_ERROR"

\* _create_error_result
create_error_result(domain, error_message) ==
    [domain |-> domain,
     total_score |-> 0,
     company_number_match |-> PrecisionMatch("company_number"),
     vat_number_match |-> PrecisionMatch("vat_number"),
     pages_crawled |-> 0,
     target_pages_crawled |-> 0,
     non_target_pages_crawled |-> 0,
     crawl_status |-> error_status,
     processing_notes |-> error_message,
     search_phases_completed |-> <<>>]

\* a sort key of total_score alone
KeyLess_ScoreOnly(a, b) == a.total_score < b.total_score

\* the sort key (total_score, pages_crawled), compared as Python compares tuples
KeyLess(a, b) ==
    \/ a.total_score < b.total_score
    \/ a.total_score = b.total_score /\ a.pages_crawled < b.pages_crawled

\* sorted(..., reverse=True) is stable: x goes behind every entry whose key
\* is not less than its own
RECURSIVE InsertRanked(_, _)
InsertRanked(sorted, x) ==
    IF sorted = <<>> THEN <<x>>
    ELSE IF KeyLess(Head(sorted), x) THEN <<x>> \o sorted
    ELSE <<Head(sorted)>> \o InsertRanked(Tail(sorted), x)

RECURSIVE SortRanked(_, _)
SortRanked(rs, k) ==
    IF k = 0 THEN <<>> ELSE InsertRanked(SortRanked(rs, k - 1), rs[k])

\* sorted(results, key=lambda x: (x.total_score, x.pages_crawled), reverse=True)
rank_results(rs) == SortRanked(rs, Len(rs))

\* a skip test that looks at the first entry of the skip list only
NotSkipped_FirstOnly(skip_list, domain) ==
    skip_list = <<>> \/ domain # skip_list[1]

\* [domain for domain in domains if domain not in skip_list]
NotSkipped(skip_list, domain) == domain \notin Range(skip_list)
filter_skip(ds, skip_list) ==
    LET keep(d) == NotSkipped(skip_list, d) IN SelectSeq(ds, keep)

\* an identifier check that lets every company through
has_identifier_unchecked(cd) == TRUE

\* the identifier check: at least one of company_number and vat_number
has_identifier(cd) == ~(cd.company_number = <<>> /\ cd.vat_number = <<>>)

---------------------------------------------------------------------------
(* The web the crawler meets *)

P_home == <<>>
P_about == <<"/","a","b","o","u","t">>
P_terms == <<"/","T","e","r","m","s">>
P_shop == <<"/","s","h","o","p">>

T_none == <<"h","i">>
T_cn == <<"n","o"," ","1"," ","2">>
T_vat_full == <<"g","b"," ","7","7">>
T_vat_num == <<"v","a","t","7","7">>
T_both == <<"1","2","\n","G","B","7","7">>

Html(text, script) == [text |-> text, script |-> script]
Response(status_code, html) == [exc |-> "", status_code |-> status_code, html |-> html]
RequestException ==
    [exc |-> "RequestException", status_code |-> 0, html |-> Html(<<>>, <<>>)]

\* the identifiers of the company looked for
CompanyData(company_number, vat_number) ==
    [company_number |-> company_number, vat_number |-> vat_number]
CD_none == CompanyData(<<>>, <<>>)
CD_cn == CompanyData(<<"1","2">>, <<>>)
CD_vat == CompanyData(<<>>, <<"G","B","7","7">>)
CD_both == CompanyData(<<"1"," ","2">>, <<"g","b"," ","7","7">>)
CD_numeric == CompanyData(<<"1","2">>, <<"7","7">>)

\* What one crawl can meet: how the homepage answers, the anchors it may
\* carry, and the answers of the pages.
RichWeb ==
    [homes |-> {"https", "http", "none", "raise"},
     anchors |-> {P_about, P_terms, P_shop},
     responses |-> {Response(200, Html(T_none, <<>>)),
                    Response(200, Html(T_cn, <<>>)),
                    Response(200, Html(T_vat_full, <<>>)),
                    Response(200, Html(T_vat_num, <<>>)),
                    Response(200, Html(T_both, <<>>)),
                    Response(200, Html(T_none, T_both)),
                    Response(404, Html(T_both, <<>>)),
                    RequestException}]

SmallWeb ==
    [homes |-> {"https", "none"},
     anchors |-> {},
     responses |-> {Response(200, Html(T_both, <<>>))}]

PlainWeb ==
    [homes |-> {"https", "none", "raise"},
     anchors |-> {P_about},
     responses |-> {Response(200, Html(T_none, <<>>)),
                    Response(200, Html(T_cn, <<>>)),
                    Response(200, Html(T_both, <<>>))}]

\* the orders list(set(all_links)) can give the links in
Orders(S) ==
    {s \in [1..Cardinality(S) -> S] : \A i, j \in 1..Cardinality(S) :
                                        i # j => s[i] # s[j]}

\* the candidate domains, in the order the search returned them
AllDomains == <<"a.co.uk", "b.com", "c.org", "d.net", "e.io">>

---------------------------------------------------------------------------
(* WebsiteCrawlerV3: the crawl of one domain, run by a pool worker *)

NoResult == create_error_result("", "")

\* the frame of _crawl_single_website before its first statement
NewTask(domain) ==
    [st |-> "queued",
     domain |-> domain,
     target_pages |-> <<>>,
     non_target_pages |-> <<>>,
     company_number_match |-> PrecisionMatch("company_number"),
     vat_number_match |-> PrecisionMatch("vat_number"),
     target_pages_crawled |-> 0,
     phases_completed |-> <<>>,
     result |-> NoResult]

\* return: the frame is gone, the future holds the result
Returned(t, result) ==
    [NewTask(t.domain) EXCEPT !.st = "done", !.result = result]

Tasks == 1..Len(task)
Running == {i \in Tasks : task[i].st \in {"links", "phase1", "phase2"}}

\* a pool that starts a thread for every task submitted
worker_free_always(running) == TRUE

\* ThreadPoolExecutor(max_workers=max_concurrent_sites): a thread is free
worker_free(running) == Cardinality(running) < max_concurrent_sites

\* a free worker of the ThreadPoolExecutor takes the oldest queued task
WorkerStart(i) ==
    /\ i \in Tasks
    /\ task[i].st = "queued"
    /\ \A j \in 1..(i - 1) : task[j].st # "queued"
    /\ worker_free(Running)
    /\ task' = [task EXCEPT ![i].st = "links"]
    /\ UNCHANGED <<domains, company_data, skip_domains, mainpc, filtered_domains,
                   results, waiting, ranked, log>>
    /\ UNCHANGED <<ran, waited>>
    /\ UNCHANGED not_crawl_vars

\* the test of line 464 without the both-found condition
needs_phase2_always(cn, vat, non_target_pages) == non_target_pages # <<>>

\* the second branch of line 464: phase 2 runs unless both were found
needs_phase2(cn, vat, non_target_pages) ==
    ~(cn.found /\ vat.found) /\ non_target_pages # <<>>

\* _extract_all_links and _categorize_pages (lines 437-444)
ExtractLinks(i, web) ==
    /\ i \in Tasks
    /\ task[i].st = "links"
    /\ \E home \in web.homes :
        LET https == GetEvent("DISCOVER", Url("https", P_home))
            http == GetEvent("DISCOVER", Url("http", P_home))
        IN
        \/ /\ home \in {"https", "http"}
           /\ \E found \in SUBSET web.anchors :
                /\ Cardinality(found) <= MaxAnchors
                /\ \E paths \in Orders(found \cup {P_home}) :
                    LET all_links == [k \in 1..Len(paths) |-> Url(home, paths[k])]
                        pages == categorize_pages(all_links)
                    IN  task' = [task EXCEPT
                                   ![i].st = "phase1",
                                   ![i].target_pages = pages.target_pages,
                                   ![i].non_target_pages = pages.non_target_pages]
           /\ log' = [log EXCEPT ![i] =
                        IF home = "https" THEN <<https>> ELSE <<https, http>>]
        \/ /\ home = "none"
           \* neither scheme answered 200: all_links is empty
           /\ task' = [task EXCEPT ![i] =
                Returned(@, create_error_result(@.domain, "No links found on website"))]
           /\ log' = [log EXCEPT ![i] = <<https, http>>]
        \/ /\ home = "raise"
           \* an exception that is no RequestException reaches line 514
           /\ task' = [task EXCEPT ![i] =
                Returned(@, create_error_result(@.domain, "Crawl failed"))]
           /\ log' = [log EXCEPT ![i] = <<https>>]
    /\ UNCHANGED <<domains, company_data, skip_domains, mainpc, filtered_domains,
                   results, waiting, ranked>>
    /\ UNCHANGED <<ran, waited>>
    /\ UNCHANGED not_crawl_vars

\* lines 481-512: the score and the WebsiteScoreV3 returned
Scored(t, cn, vat, target_crawled, non_target_crawled, phases) ==
    Returned(t, score_result(t.domain, cn, vat, target_crawled,
                             non_target_crawled, phases))

\* PHASE 1 (lines 446-461), and the return when phase 2 is not entered
Phase1(i, web) ==
    /\ i \in Tasks
    /\ task[i].st = "phase1"
    /\ LET t == task[i] IN
       IF t.target_pages = <<>>
       THEN /\ task' = [task EXCEPT ![i] =
                 IF needs_phase2(t.company_number_match, t.vat_number_match,
                                 t.non_target_pages)
                 THEN [t EXCEPT !.st = "phase2"]
                 ELSE Scored(t, t.company_number_match, t.vat_number_match,
                             0, 0, t.phases_completed)]
            /\ log' = log
       ELSE \E resp \in [1..Len(phase_pages(t.target_pages, max_target_pages))
                            -> web.responses] :
              LET p == crawl_pages_phase(t.target_pages, resp, "TARGET",
                                         company_data, max_target_pages)
                  cn == IF p.company_number_match.found
                        THEN p.company_number_match ELSE t.company_number_match
                  vat == IF p.vat_number_match.found
                         THEN p.vat_number_match ELSE t.vat_number_match
                  phases == Append(t.phases_completed, "Phase 1: Target pages")
              IN  /\ task' = [task EXCEPT ![i] =
                        IF needs_phase2(cn, vat, t.non_target_pages)
                        THEN [t EXCEPT !.st = "phase2",
                                       !.company_number_match = cn,
                                       !.vat_number_match = vat,
                                       !.target_pages_crawled = p.pages_crawled,
                                       !.phases_completed = phases]
                        ELSE Scored(t, cn, vat, p.pages_crawled, 0, phases)]
                  /\ log' = [log EXCEPT ![i] = @ \o p.log]
    /\ UNCHANGED <<domains, company_data, skip_domains, mainpc, filtered_domains,
                   results, waiting, ranked>>
    /\ UNCHANGED <<ran, waited>>
    /\ UNCHANGED not_crawl_vars

\* an update from phase 2 that takes whatever phase 2 found
phase2_update_overwrite(current, phase2) ==
    IF phase2.found THEN phase2 ELSE current

\* lines 472-475: a phase-2 match is taken only if phase 1 found none
phase2_update(current, phase2) ==
    IF phase2.found /\ ~current.found THEN phase2 ELSE current

\* PHASE 2 (lines 463-479), then the score and the return
Phase2(i, web) ==
    /\ i \in Tasks
    /\ task[i].st = "phase2"
    /\ LET t == task[i] IN
       \E resp \in [1..Len(phase_pages(t.non_target_pages, max_additional_pages))
                       -> web.responses] :
         LET p == crawl_pages_phase(t.non_target_pages, resp, "NON_TARGET",
                                    company_data, max_additional_pages)
             cn == phase2_update(t.company_number_match, p.company_number_match)
             vat == phase2_update(t.vat_number_match, p.vat_number_match)
             phases == Append(t.phases_completed, "Phase 2: Additional pages")
         IN  /\ task' = [task EXCEPT ![i] =
                   Scored(t, cn, vat, t.target_pages_crawled, p.pages_crawled,
                          phases)]
             /\ log' = [log EXCEPT ![i] = @ \o p.log]
    /\ UNCHANGED <<domains, company_data, skip_domains, mainpc, filtered_domains,
                   results, waiting, ranked>>
    /\ UNCHANGED <<ran, waited>>
    /\ UNCHANGED not_crawl_vars

---------------------------------------------------------------------------
(* WebsiteCrawlerV3.crawl_and_rank_websites: the calling thread *)

\* lines 556-591: the checks, the skip list, and the submission of one task
\* per remaining domain
Enter ==
    /\ mainpc = "call"
    /\ LET filtered == filter_skip(domains, skip_domains) IN
       IF domains = <<>> \/ ~has_identifier(company_data) \/ filtered = <<>>
       THEN /\ mainpc' = "done"
            /\ ranked' = <<>>
            /\ UNCHANGED <<filtered_domains, task, log, waiting, ran>>
       ELSE /\ mainpc' = "collect"
            /\ filtered_domains' = filtered
            /\ task' = [i \in 1..Len(filtered) |-> NewTask(filtered[i])]
            /\ log' = [i \in 1..Len(filtered) |-> <<>>]
            /\ ran' = [i \in 1..Len(filtered) |-> 0]
            /\ waiting' = 1
            /\ UNCHANGED ranked
    /\ UNCHANGED <<domains, company_data, skip_domains, results>>
    /\ UNCHANGED waited
    /\ UNCHANGED not_crawl_vars

\* where the caller goes after the future it waited on
AfterFuture == IF waiting + 1 > Len(task) THEN "shutdown" ELSE "collect"

\* lines 594-597: future.result() returns the crawl's result
Collect ==
    /\ mainpc = "collect"
    /\ task[waiting].st = "done"
    /\ results' = Append(results, task[waiting].result)
    /\ waiting' = waiting + 1
    /\ mainpc' = AfterFuture
    /\ UNCHANGED <<domains, company_data, skip_domains, filtered_domains, ranked,
                   task, log>>
    /\ waited' = 0
    /\ UNCHANGED ran
    /\ UNCHANGED not_crawl_vars

\* the except branch going on to the next future without recording a result
Timeout_Unrecorded ==
    /\ mainpc = "collect"
    /\ task[waiting].st # "done"
    /\ waiting' = waiting + 1
    /\ mainpc' = IF waiting + 1 > Len(task) THEN "shutdown" ELSE "collect"
    /\ UNCHANGED <<domains, company_data, skip_domains, filtered_domains, ranked,
                   task, log, results>>
    /\ waited' = 0
    /\ UNCHANGED ran
    /\ UNCHANGED not_crawl_vars

\* the except branch recording the error and waiting on for the same future
Timeout_WaitsOn ==
    /\ mainpc = "collect"
    /\ task[waiting].st # "done"
    /\ results' = Append(results,
                         create_error_result(filtered_domains[waiting],
                                             "Timeout or error"))
    /\ UNCHANGED <<domains, company_data, skip_domains, filtered_domains, ranked,
                   task, log, waiting, mainpc>>
    /\ waited' = 0
    /\ UNCHANGED ran
    /\ UNCHANGED not_crawl_vars

\* lines 598-601: future.result(timeout=timeout_seconds * 3) gives up on a
\* crawl that has not finished; the worker is left running
Timeout ==
    /\ mainpc = "collect"
    /\ task[waiting].st # "done"
    /\ results' = Append(results,
                         create_error_result(filtered_domains[waiting],
                                             "Timeout or error"))
    /\ waiting' = waiting + 1
    /\ mainpc' = AfterFuture
    /\ UNCHANGED <<domains, company_data, skip_domains, filtered_domains, ranked,
                   task, log>>
    /\ waited' = 0
    /\ UNCHANGED ran
    /\ UNCHANGED not_crawl_vars

\* leaving the with block waits for every worker; lines 603-612 sort and return
Return ==
    /\ mainpc = "shutdown"
    /\ \A i \in Tasks : task[i].st = "done"
    /\ ranked' = rank_results(results)
    /\ mainpc' = "done"
    /\ UNCHANGED <<domains, company_data, skip_domains, filtered_domains, results,
                   waiting, task, log>>
    /\ UNCHANGED <<ran, waited>>
    /\ UNCHANGED not_crawl_vars

\* the deadline of future.result(timeout=...) has passed for the future the
\* caller waits on
DeadlineTimeout ==
    /\ waited >= pool_deadline
    /\ Timeout

\* a tick of the clock: every crawl in a worker has run one tick longer and
\* the caller has waited one tick longer. Time does not pass while a free
\* worker has a task to take, while the awaited future is done, or beyond
\* the deadline of the wait. A crawl's time is counted up to the deadline.
Tick ==
    /\ mainpc \in {"collect", "shutdown"}
    /\ Running # {}
    /\ ~\E i \in Tasks : task[i].st = "queued" /\ worker_free(Running)
    /\ mainpc = "collect" => (task[waiting].st # "done" /\ waited < pool_deadline)
    /\ ran' = [i \in Tasks |->
                IF i \in Running /\ ran[i] < pool_deadline
                THEN ran[i] + 1 ELSE ran[i]]
    /\ waited' = IF mainpc = "collect" THEN waited + 1 ELSE waited
    /\ UNCHANGED <<domains, company_data, skip_domains, mainpc, filtered_domains,
                   results, waiting, ranked, task, log>>
    /\ UNCHANGED not_crawl_vars

---------------------------------------------------------------------------
(* VATLookupClient: pure parts                                             *)
(* A company name is the sequence of its words; a VAT number is text.      *)

\* str.upper() on the words the model uses
UpperWord(w) ==
    CASE w = "Acme" -> "ACME" [] w = "Ltd" -> "LTD" [] w = "Limited" -> "LIMITED"
      [] w = "Svcs" -> "SVCS" [] w = "Co." -> "CO." [] w = "Other" -> "OTHER"
      [] OTHER -> w

UpperName(n) == [i \in 1..Len(n) |-> UpperWord(n[i])]

\* the transformations of _sanitize_company_name, in order: a pattern
\* anchored at the end of the name rewrites that suffix, a \b...\b pattern
\* rewrites every occurrence of the word
SuffixRule(pat, rep) == [suffix |-> TRUE, pat |-> pat, rep |-> rep]
WordRule(pat, rep) == [suffix |-> FALSE, pat |-> pat, rep |-> rep]
transformations ==
    << SuffixRule(<<"&", "CO.", "LTD">>, <<"&", "COMPANY", "LIMITED">>),
       SuffixRule(<<"&", "CO", "LTD">>, <<"&", "COMPANY", "LIMITED">>),
       SuffixRule(<<"&", "CO.">>, <<"&", "COMPANY">>),
       SuffixRule(<<"&", "CO">>, <<"&", "COMPANY">>),
       SuffixRule(<<"LTD.">>, <<"LIMITED">>),
       SuffixRule(<<"LTD">>, <<"LIMITED">>),
       SuffixRule(<<"CO.">>, <<"COMPANY">>),
       SuffixRule(<<"CO">>, <<"COMPANY">>),
       SuffixRule(<<"CORP.">>, <<"CORPORATION">>),
       SuffixRule(<<"CORP">>, <<"CORPORATION">>),
       SuffixRule(<<"INC.">>, <<"INCORPORATED">>),
       SuffixRule(<<"INC">>, <<"INCORPORATED">>),
       WordRule(<<"SVCS">>, <<"SERVICES">>),
       WordRule(<<"SVC">>, <<"SERVICE">>),
       WordRule(<<"GRP">>, <<"GROUP">>),
       WordRule(<<"HLDG", "HLDGS">>, <<"HOLDINGS">>),
       WordRule(<<"MGMT">>, <<"MANAGEMENT">>),
       WordRule(<<"MGT">>, <<"MANAGEMENT">>),
       WordRule(<<"TECH">>, <<"TECHNOLOGY">>),
       WordRule(<<"SYS">>, <<"SYSTEMS">>) >>

\* re.search(pattern, current_name)
RuleMatches(rule, name) ==
    IF rule.suffix
    THEN /\ Len(name) >= Len(rule.pat)
         /\ SubSeq(name, Len(name) - Len(rule.pat) + 1, Len(name)) = rule.pat
    ELSE \E i \in 1..Len(name) : name[i] \in Range(rule.pat)

\* re.sub(pattern, replacement, current_name).strip()
RuleApply(rule, name) ==
    IF rule.suffix
    THEN SubSeq(name, 1, Len(name) - Len(rule.pat)) \o rule.rep
    ELSE [i \in 1..Len(name) |->
             IF name[i] \in Range(rule.pat) THEN rule.rep[1] ELSE name[i]]

\* the loop over the transformations (lines 231-237)
RECURSIVE ApplyTransformations(_, _, _)
ApplyTransformations(k, current_name, variations) ==
    IF k > Len(transformations) THEN variations
    ELSE IF RuleMatches(transformations[k], current_name)
    THEN LET transformed == RuleApply(transformations[k], current_name)
         IN  ApplyTransformations(k + 1, transformed,
                 IF transformed # current_name /\ transformed \notin Range(variations)
                 THEN Append(variations, transformed) ELSE variations)
    ELSE ApplyTransformations(k + 1, current_name, variations)

\* lines 240-243: duplicates removed, order kept
RECURSIVE Unique(_, _)
Unique(s, k) ==
    IF k = 0 THEN <<>>
    ELSE LET u == Unique(s, k - 1)
         IN  IF s[k] \in Range(u) THEN u ELSE Append(u, s[k])

\* _sanitize_company_name
sanitize_company_name(company_name) ==
    IF company_name = <<>> THEN <<>>
    ELSE LET variations ==
                 ApplyTransformations(1, UpperName(company_name), <<company_name>>)
         IN  Unique(variations, Len(variations))

\* str.replace(' ', '')
NotBlank(c) == c # " "
RemoveBlanks(s) == SelectSeq(s, NotBlank)

\* re.match(r'^GB\d{9}$', s)
IsGBNineDigits(s) ==
    /\ Len(s) = 11
    /\ s[1] = "G"
    /\ s[2] = "B"
    /\ \A i \in 3..11 : IsDigit(s[i])

\* _validate_vat_format
validate_vat_format(vat_number) ==
    /\ vat_number # <<>>
    /\ IsGBNineDigits(RemoveBlanks(Upper(vat_number)))

\* the page the service answers with: the markers _detect_response_type
\* looks for, and the data rows of the results table
Page(robot, unable, table, rows) ==
    [robot |-> robot, unable |-> unable, table |-> table, rows |-> rows]

\* _detect_response_type
detect_response_type(html) ==
    IF html.robot THEN "soft_block"
    ELSE IF html.unable THEN "not_found"
    ELSE IF html.table THEN "results_found"
    ELSE "unknown"

\* a data row: its number of cells, the company name, the text of the VAT link
Row(cells, company_name, vat_number) ==
    [cells |-> cells, company_name |-> company_name, vat_number |-> vat_number]

\* lines 348-368: the rows with four cells and a VAT number of valid format
IsResultRow(row) == row.cells >= 4 /\ validate_vat_format(row.vat_number)
valid_results(rows) == SelectSeq(rows, IsResultRow)

\* lines 382-386: the first result whose name is the search term, case ignored
RECURSIVE ExactMatch(_, _, _)
ExactMatch(rs, search_term, k) ==
    IF k > Len(rs) THEN <<>>
    ELSE IF UpperName(rs[k].company_name) = UpperName(search_term) THEN <<rs[k]>>
    ELSE ExactMatch(rs, search_term, k + 1)

\* the first valid result taken whatever its name
choose_first(rs, search_term) == <<rs[1]>>

\* the choice among the valid results (lines 376-391)
choose_result(rs, search_term) ==
    IF Len(rs) = 1 THEN <<rs[1]>> ELSE ExactMatch(rs, search_term, 1)

\* _parse_vat_results: <<row>> for the row returned, <<>> for None
parse_vat_results(html, search_term) ==
    IF ~html.table \/ html.rows = <<>> THEN <<>>
    ELSE LET rs == valid_results(html.rows)
         IN  IF rs = <<>> THEN <<>> ELSE choose_result(rs, search_term)

NOT_FOUND == <<"N","O","T","_","F","O","U","N","D">>

\* VATData
VATData(company_name, search_terms, vat_number, search_status) ==
    [company_name |-> company_name, search_terms |-> search_terms,
     vat_number |-> vat_number, search_status |-> search_status]

NoData == VATData(<<>>, <<>>, <<>>, "")

\* _create_error_record
create_error_record(company_name, search_terms, status) ==
    VATData(company_name, search_terms, NOT_FOUND, status)

\* the vat_number of the VATData returned on success (line 518)
returned_vat_number(row) == row.vat_number

\* search_terms without the slice
terms_tried_all(variations, index) == variations

\* the search_terms of the VATData returned on success (line 517)
terms_tried(variations, index) == SubSeq(variations, 1, index + 1)

---------------------------------------------------------------------------
(* What the VAT service can answer *)

N_acme_ltd == <<"Acme", "Ltd">>
N_acme_limited == <<"ACME", "LIMITED">>
N_acme_mixed == <<"Acme", "Limited">>
N_other == <<"OTHER", "LTD">>
N_long == <<"ACME", "SVCS", "&", "CO.", "LTD">>

V_exact == <<"G","B","1","2","3","4","5","6","7","8","9">>
V_loose == <<"g","b"," ","1","2","3","4","5","6","7","8","9">>
V_short == <<"G","B","1","2","3","4","5","6","7","8">>

\* the company names handed to the lookup
VatNames == {<<>>, N_acme_ltd, N_acme_limited, N_long}

\* the rows a results table is made of
VatRows ==
    {Row(4, N_acme_limited, V_exact),
     Row(4, N_acme_mixed, V_loose),
     Row(4, N_other, V_exact),
     Row(4, N_other, V_short),
     Row(4, N_other, <<>>),
     Row(3, N_acme_limited, V_exact)}

Tables == UNION {[1..n -> VatRows] : n \in 0..MaxRows}

NoPage == Page(FALSE, FALSE, FALSE, <<>>)

\* the pages of the service
VatPages ==
    {Page(TRUE, FALSE, FALSE, <<>>),
     Page(TRUE, FALSE, TRUE, <<Row(4, N_acme_limited, V_exact)>>),
     Page(FALSE, TRUE, FALSE, <<>>),
     NoPage}
    \cup {Page(FALSE, FALSE, TRUE, rows) : rows \in Tables}

---------------------------------------------------------------------------
(* VATLookupClient.lookup_vat_by_company_name *)

NoTrace ==
    [requests |-> 0, sessions |-> 0, last_used |-> 0, last_type |-> "",
     html |-> NoPage]

\* an attempt that keeps the session of the attempt before it
create_session_once(sessions) == IF sessions = 0 THEN 1 ELSE sessions

\* line 476: session = self._create_session(), a new requests.Session; the
\* sessions of a lookup are numbered in the order they are created
create_session(sessions) == sessions + 1

\* lines 444-467: the name check and the variations
VatCall ==
    /\ vat_pc = "call"
    /\ LET variations == sanitize_company_name(vat_name) IN
       IF vat_name = <<>> \/ variations = <<>>
       THEN /\ vat_out' = create_error_record(vat_name, <<>>, "INVALID_COMPANY_NAME")
            /\ vat_pc' = "done"
            /\ UNCHANGED search_variations
       ELSE /\ search_variations' = variations
            /\ vat_pc' = "loop"
            /\ UNCHANGED vat_out
    /\ UNCHANGED <<vat_name, variation_index, attempt, vat_trace>>
    /\ UNCHANGED not_vat_vars

\* a lookup that reports the block when the variations run out
exhausted_record_blocked(name, variations) ==
    VATData(name, variations, NOT_FOUND, "SERVICE_BLOCKED")

\* lines 542-552: the record returned when no variation gave a VAT number
exhausted_record(name, variations) ==
    VATData(name, variations, NOT_FOUND, "VAT_NOT_FOUND")

\* break: the next variation, or lines 542-552 when there is none left
NextVariation ==
    IF variation_index + 1 < Len(search_variations)
    THEN /\ variation_index' = variation_index + 1
         /\ attempt' = 0
         /\ UNCHANGED <<vat_pc, vat_out>>
    ELSE /\ vat_pc' = "done"
         /\ vat_out' = exhausted_record(vat_name, search_variations)
         /\ UNCHANGED <<variation_index, attempt>>

\* a retry loop that never gives a variation up
retries_left_always(n) == TRUE

\* attempt < self.max_retries - 1 (lines 484, 494, 536)
retries_left(n) == n < max_retries - 1

\* continue while attempts are left, break after the last one
RetryOrBreak ==
    IF retries_left(attempt)
    THEN /\ attempt' = attempt + 1
         /\ UNCHANGED <<variation_index, vat_pc, vat_out>>
    ELSE NextVariation

\* one pass of the retry loop (lines 474-540): a new session, one request,
\* and what the answer leads to
VatAttempt ==
    /\ vat_pc = "loop"
    /\ LET search_term == search_variations[variation_index + 1]
           session == create_session(vat_trace.sessions)
       IN
       \/ \* _create_session or the request raises: line 534
          /\ vat_trace' = [vat_trace EXCEPT !.sessions = session,
                                            !.last_type = "raise", !.html = NoPage]
          /\ RetryOrBreak
       \/ \* _make_search_request returns None
          /\ vat_trace' = [requests |-> vat_trace.requests + 1,
                           sessions |-> session, last_used |-> session,
                           last_type |-> "failed", html |-> NoPage]
          /\ RetryOrBreak
       \/ \E html \in VatPages :
            LET response_type == detect_response_type(html) IN
            /\ vat_trace' = [requests |-> vat_trace.requests + 1,
                             sessions |-> session, last_used |-> session,
                             last_type |-> response_type, html |-> html]
            /\ IF response_type = "soft_block" THEN RetryOrBreak
               ELSE IF response_type = "results_found"
               THEN LET vat_result == parse_vat_results(html, search_term) IN
                    IF vat_result # <<>>
                    THEN /\ vat_out' = VATData(vat_name,
                                 terms_tried(search_variations, variation_index),
                                 returned_vat_number(vat_result[1]), "SUCCESS")
                         /\ vat_pc' = "done"
                         /\ UNCHANGED <<variation_index, attempt>>
                    ELSE NextVariation
               ELSE NextVariation
    /\ UNCHANGED <<vat_name, search_variations>>
    /\ UNCHANGED not_vat_vars

---------------------------------------------------------------------------
(* WebsiteHunterClient: pure parts *)

\* str.strip()
RECURSIVE LStrip(_)
LStrip(s) == IF s # <<>> /\ IsSpace(s[1]) THEN LStrip(Tail(s)) ELSE s
RECURSIVE RStrip(_)
RStrip(s) ==
    IF s # <<>> /\ IsSpace(s[Len(s)]) THEN RStrip(SubSeq(s, 1, Len(s) - 1)) ELSE s
Strip(s) == RStrip(LStrip(s))

\* Python's None and a present value
None == [none |-> TRUE, value |-> 0]
Some(v) == [none |-> FALSE, value |-> v]

\* dict.get(key, default) on a JSON object
Get(d, key, default) == IF key \in DOMAIN d THEN d[key] ELSE default

\* bool(dict): an empty dict is false
Truthy(d) == DOMAIN d # {}

\* what a builder or a helper called on its own leaves: a value or an
\* exception
Value(v) == [raised |-> "", value |-> v]
Raised(exc) == [raised |-> exc, value |-> <<>>]

\* a filter that keeps whatever it is given
is_valid_identifier_any(id) == TRUE

\* the filter of lines 205 and 243:  id and id.strip()
is_valid_identifier(id) == id # <<>> /\ Strip(id) # <<>>

K_privacy == <<"p","r","i","v","a","c","y">>
K_privacy_policy == K_privacy \o <<" ">> \o <<"p","o","l","i","c","y">>
K_terms == <<"t","e","r","m","s">>
K_about == <<"a","b","o","u","t">>
K_contact == <<"c","o","n","t","a","c","t">>
K_company == <<"c","o","m","p","a","n","y">>
K_policy == <<"p","o","l","i","c","y">>
K_information == <<"i","n","f","o","r","m","a","t","i","o","n">>
K_cookie_policy == <<"C","o","o","k","i","e"," ">> \o K_policy

\* str.replace(pat, "")
RECURSIVE RemoveSub(_, _)
RemoveSub(s, pat) ==
    IF Len(s) < Len(pat) THEN s
    ELSE IF SubSeq(s, 1, Len(pat)) = pat
         THEN RemoveSub(SubSeq(s, Len(pat) + 1, Len(s)), pat)
         ELSE <<s[1]>> \o RemoveSub(Tail(s), pat)

\* lines 255-269: the inurl: operator of one keyword, <<>> when it has none
inurl_keyword(keyword) ==
    LET k == Lower(keyword) IN
    IF IsSubstr(K_privacy_policy, k) THEN K_privacy
    ELSE IF IsSubstr(K_terms, k) THEN K_terms
    ELSE IF IsSubstr(K_about, k) THEN K_about
    ELSE IF IsSubstr(K_contact, k) THEN K_contact
    ELSE IF IsSubstr(K_company, k) THEN K_company
    ELSE RemoveSub(RemoveSub(RemoveSub(k, <<" ">>), K_policy), K_information)

\* lines 252-275: the operators of the keywords, without duplicates, in order
RECURSIVE inurl_keywords(_, _)
inurl_keywords(search_keywords, acc) ==
    IF search_keywords = <<>> THEN acc
    ELSE LET op == inurl_keyword(Head(search_keywords)) IN
         inurl_keywords(Tail(search_keywords),
                        IF op = <<>> \/ op \in Range(acc) THEN acc
                        ELSE Append(acc, op))

\* the query string, by its parts
Query(identifiers, operator, terms, excluded_domains) ==
    [identifiers |-> identifiers, operator |-> operator, terms |-> terms,
     exclusions |-> excluded_domains]
NoQuery == Query(<<>>, "", <<>>, <<>>)

\* _build_search_query and _build_search_query_v2, chosen as line 477 does
build_search_query(version, identifiers, search_keywords, excluded_domains) ==
    LET valid_identifiers == SelectSeq(identifiers, is_valid_identifier) IN
    IF valid_identifiers = <<>> THEN Raised("ValueError")
    ELSE IF version = 2
         THEN Value(Query(valid_identifiers, "inurl",
                          inurl_keywords(search_keywords, <<>>), excluded_domains))
         ELSE Value(Query(valid_identifiers, "keyword", search_keywords,
                          excluded_domains))

\* an HTTP exchange of the client's session
ApiResponse(status_code, json_valid, data) ==
    [exc |-> "", status_code |-> status_code, json_valid |-> json_valid,
     data |-> data]
ApiRequestException ==
    [exc |-> "RequestException", status_code |-> 0, json_valid |-> FALSE,
     data |-> <<>>]

\* check_api_quota after the request: the status data, or None
check_api_quota(response) ==
    IF response.exc # "" THEN None
    ELSE IF response.status_code \in {401, 403, 429} THEN None
    ELSE IF response.status_code >= 400 THEN None
    ELSE IF ~response.json_valid THEN None
    ELSE Some(response.data)

\* _make_search_request after the request: the search results, or None
make_search_request(response) ==
    IF response.exc # "" THEN None
    ELSE IF response.status_code \in {401, 429, 402} THEN None
    ELSE IF response.status_code >= 400 THEN None
    ELSE IF ~response.json_valid THEN None
    ELSE Some(response.data)

\* a result URL: what precedes the network location, and the location
ResultUrl(prefix, netloc) == [prefix |-> prefix, netloc |-> netloc]

WwwDot == <<"w", "w", "w", ".">>

\* lines 348-349: one leading www. is removed
strip_www(domain) ==
    IF Len(domain) >= 4 /\ SubSeq(domain, 1, 4) = WwwDot
    THEN SubSeq(domain, 5, Len(domain)) ELSE domain

\* line 341: url and url.startswith(('http://', 'https://'))
is_http_url(url) == url.prefix \in {"http://", "https://"}

\* _extract_base_domain: the domain, or None
extract_base_domain(url) ==
    IF ~is_http_url(url) THEN None
    ELSE LET domain == strip_www(Lower(url.netloc)) IN
         IF "." \notin Range(domain) \/ Len(domain) < 3 THEN None
         ELSE Some(domain)

\* the for loop of _extract_websites_from_results
RECURSIVE ExtractLoop(_, _)
ExtractLoop(organic_results, unique_domains) ==
    IF organic_results = <<>> THEN unique_domains
    ELSE LET url == Head(organic_results).url
             domain == extract_base_domain(url)
         IN  ExtractLoop(Tail(organic_results),
                 IF ~(url.prefix = "" /\ url.netloc = <<>>)
                    /\ ~domain.none
                    /\ domain.value \notin Range(unique_domains)
                 THEN Append(unique_domains, domain.value)
                 ELSE unique_domains)

\* _extract_websites_from_results
extract_websites_from_results(search_results) ==
    ExtractLoop(Get(search_results, "organic", <<>>), <<>>)

\* WebsiteSearchResult
WebsiteSearchResult(identifier, search_query, websites_found, search_status, processing_notes, api_quota_remaining, total_results_found) ==
    [identifier |-> identifier,
     search_query |-> search_query,
     websites_found |-> websites_found,
     search_status |-> search_status,
     processing_notes |-> processing_notes,
     api_quota_remaining |-> api_quota_remaining,
     total_results_found |-> total_results_found]

\* WebsiteHunterClient._create_error_result
hunter_error_result(identifier, status, message, query) ==
    WebsiteSearchResult(identifier, query, <<>>, status, message, None, 0)

---------------------------------------------------------------------------
(* WebsiteHunterClient: what it is called with and what the API answers *)

HunterCompany(company_number, vat_number, company_name) ==
    [empty |-> FALSE, company_number |-> company_number,
     vat_number |-> vat_number, company_name |-> company_name]

\* an empty dict
HC_empty == [HunterCompany(<<>>, <<>>, <<>>) EXCEPT !.empty = TRUE]
HC_number == HunterCompany(<<"1", "2">>, <<>>, <<>>)
HC_full == HunterCompany(<<" ", "1", "2", " ">>, <<"G", "B", "7", "7">>,
                         <<"A", "c", "m", "e">>)
HC_no_number == HunterCompany(<<>>, <<"G", "B", "7", "7">>, <<"A", "c", "m", "e">>)
HC_all_empty == HunterCompany(<<>>, <<>>, <<>>)
HC_all_space == HunterCompany(<<" ">>, <<" ", " ">>, <<"\t">>)

HunterCompanies ==
    {HC_empty, HC_number, HC_full, HC_no_number, HC_all_empty, HC_all_space}

\* identifier lists handed to a query builder
BuilderInputs ==
    {<<>>, << <<>> >>, << <<" ">>, <<>> >>, << <<"\t", " ">> >>,
     << <<"1", "2">> >>, << <<" ">>, <<"1", "2">>, <<>> >>}

SearchKeywords == <<K_privacy_policy, K_terms, <<"T","e","r","m","s">>,
                    K_cookie_policy, K_policy>>
ExcludedDomains == <<"gov.uk", "endole.co.uk">>

H_a == <<"a", ".", "c", "o">>
H_A == <<"A", ".", "c", "o">>
H_www_a == WwwDot \o H_a
H_WWW_a == <<"W", "W", "W", ".">> \o H_a
H_www_www_a == WwwDot \o WwwDot \o H_a
H_b == <<"b", ".", "c", "o">>
H_nodot == <<"b">>

\* the URLs of organic results
ResultUrls ==
    {ResultUrl("https://", H_a), ResultUrl("http://", H_www_a),
     ResultUrl("https://", H_A), ResultUrl("https://", H_WWW_a),
     ResultUrl("https://", H_www_www_a), ResultUrl("https://", H_b),
     ResultUrl("ftp://", H_b), ResultUrl("https://", H_nodot),
     ResultUrl("", <<>>)}

Organic(url) == [url |-> url]

\* search results with up to MaxResults organic results
ResultLists ==
    UNION {[1..n -> {Organic(u) : u \in ResultUrls}] : n \in 0..MaxResults}

\* the answers to GET /status
StatusResponses ==
    {ApiResponse(401, TRUE, <<>>), ApiResponse(403, TRUE, <<>>),
     ApiResponse(429, TRUE, <<>>), ApiResponse(500, TRUE, <<>>),
     ApiRequestException,
     ApiResponse(200, FALSE, <<>>),
     ApiResponse(200, TRUE, <<>>),
     ApiResponse(200, TRUE, [plan |-> "free"]),
     ApiResponse(200, TRUE, [remaining_requests |-> 5]),
     ApiResponse(200, TRUE, [remaining_requests |-> 0]),
     ApiResponse(200, TRUE, [remaining_requests |-> -1])}

\* the answers to GET /search
SearchResponses ==
    {ApiResponse(401, TRUE, <<>>), ApiResponse(429, TRUE, <<>>),
     ApiResponse(402, TRUE, <<>>), ApiResponse(500, TRUE, <<>>),
     ApiRequestException,
     ApiResponse(200, FALSE, <<>>),
     ApiResponse(200, TRUE, <<>>),
     ApiResponse(200, TRUE, [query |-> "q"]),
     ApiResponse(200, TRUE, [organic |-> <<>>]),
     ApiResponse(200, TRUE, [organic |-> <<Organic(ResultUrl("ftp://", H_b))>>]),
     ApiResponse(200, TRUE, [organic |-> <<Organic(ResultUrl("https://", H_www_a)),
                                          Organic(ResultUrl("https://", H_a)),
                                          Organic(ResultUrl("https://", H_b))>>])}

\* the calls made on a client
FindCall(cd) ==
    [op |-> "find_company_website", company_data |-> cd, identifiers |-> <<>>,
     search_results |-> <<>>]
BuildCall(identifiers) ==
    [op |-> "_build_search_query", company_data |-> HC_empty,
     identifiers |-> identifiers, search_results |-> <<>>]
ExtractCall(organic_results) ==
    [op |-> "_extract_websites_from_results", company_data |-> HC_empty,
     identifiers |-> <<>>, search_results |-> [organic |-> organic_results]]

HunterCalls ==
    {FindCall(cd) : cd \in HunterCompanies}
    \cup {BuildCall(ids) : ids \in BuilderInputs}
    \cup {ExtractCall(rs) : rs \in ResultLists}

\* the entries of the client's log of outbound traffic
RateLimitEvent(slept) == [op |-> "rate_limit", slept |-> slept]
ApiGet(url, response) == [op |-> "GET", url |-> url, response |-> response]

NoFailure == [cause |-> "", status |-> "", notes |-> ""]

---------------------------------------------------------------------------
(* WebsiteHunterClient.find_company_website, and its helpers called alone *)

\* a quota test that lets a count of zero through
quota_exhausted_below_zero(remaining) ==
    ~remaining.none /\ remaining.value < 0

\* line 455: quota_remaining is not None and quota_remaining <= 0
quota_exhausted(remaining) ==
    ~remaining.none /\ remaining.value <= 0

\* lines 435-437: a text field of company_data, stripped
stripped(field) == Strip(field)

\* lines 463-471: the company number, then the VAT number and the name if any
hunter_identifiers(cd) ==
    <<stripped(cd.company_number)>>
    \o (IF stripped(cd.vat_number) # <<>> THEN <<stripped(cd.vat_number)>> ELSE <<>>)
    \o (IF stripped(cd.company_name) # <<>> THEN <<stripped(cd.company_name)>> ELSE <<>>)

\* what the HTTP exchange of a failed request was
CauseOf(response) ==
    IF response.exc # "" THEN "network"
    ELSE IF response.status_code = 401 THEN "401"
    ELSE IF response.status_code = 429 THEN "429"
    ELSE IF response.status_code = 402 THEN "402"
    ELSE IF response.status_code >= 400 THEN "http"
    ELSE IF ~response.json_valid THEN "json"
    ELSE "empty"

\* a rate limiter that never sleeps
sleep_time_none(time_since_last) == 0

\* _rate_limit, lines 144-150: the time slept before last_request_time is set
sleep_time(time_since_last) ==
    IF time_since_last < min_request_delay
    THEN min_request_delay - time_since_last
    ELSE 0

\* the clock t ticks later; it is read up to the delay
later(time_since_last, t) ==
    IF time_since_last + t > min_request_delay
    THEN min_request_delay ELSE time_since_last + t

\* self._rate_limit() and the start of the request that follows it
RateLimited(url, response) ==
    LET slept == sleep_time(since_last) IN
    /\ hunt_log' = hunt_log \o <<RateLimitEvent(slept), ApiGet(url, response)>>
    /\ last_gap' = Some(later(since_last, slept))
    /\ since_last' = 0

\* lines 427-444: the checks on company_data
HunterValidate ==
    /\ hunt_pc = "call"
    /\ hunt_args.op = "find_company_website"
    /\ LET cd == hunt_args.company_data IN
       IF cd.empty
       THEN /\ hunt_out' = Value(hunter_error_result(<<>>, "INVALID_IDENTIFIER",
                                     "Company data cannot be empty", NoQuery))
            /\ hunt_pc' = "done"
       ELSE IF stripped(cd.company_number) = <<>>
       THEN /\ hunt_out' = Value(hunter_error_result(<<>>, "INVALID_IDENTIFIER",
                                     "Company number is required", NoQuery))
            /\ hunt_pc' = "done"
       ELSE /\ hunt_pc' = "quota"
            /\ UNCHANGED hunt_out
    /\ UNCHANGED <<query_version, hunt_args, quota_remaining, hunt_log, hunt_prev>>
    /\ UNCHANGED <<since_last, last_gap>>
    /\ UNCHANGED not_hunter_vars

\* lines 449-460: the quota check and what it leads to
HunterQuota ==
    /\ hunt_pc = "quota"
    /\ \E response \in StatusResponses :
         LET quota_info == check_api_quota(response)
             remaining ==
                 IF ~quota_info.none /\ Truthy(quota_info.value)
                    /\ "remaining_requests" \in DOMAIN quota_info.value
                 THEN Some(quota_info.value.remaining_requests)
                 ELSE None
         IN  /\ RateLimited("status", response)
             /\ IF quota_exhausted(remaining)
                THEN /\ hunt_out' = Value(hunter_error_result(
                              <<stripped(hunt_args.company_data.company_number)>>,
                              "QUOTA_EXCEEDED", "API quota exceeded", NoQuery))
                     /\ hunt_pc' = "done"
                     /\ UNCHANGED quota_remaining
                ELSE /\ quota_remaining' = remaining
                     /\ hunt_pc' = "search"
                     /\ UNCHANGED hunt_out
    /\ UNCHANGED <<query_version, hunt_args, hunt_prev>>
    /\ UNCHANGED not_hunter_vars

\* lines 462-535: the query, the one search request, and the result
HunterSearch ==
    /\ hunt_pc = "search"
    /\ LET company_number == stripped(hunt_args.company_data.company_number)
           identifiers == hunter_identifiers(hunt_args.company_data)
           built == build_search_query(query_version, identifiers,
                                       SearchKeywords, ExcludedDomains)
       IN
       IF built.raised # ""
       THEN \* the except of line 528
            /\ hunt_out' = Value(hunter_error_result(<<company_number>>,
                                     "PARSING_ERROR", "Website search failed",
                                     NoQuery))
            /\ UNCHANGED <<hunt_log, since_last, last_gap>>
       ELSE \E response \in SearchResponses :
              LET search_query == built.value
                  search_results == make_search_request(response)
              IN
              /\ RateLimited("search", response)
              /\ IF search_results.none \/ ~Truthy(search_results.value)
                 THEN hunt_out' = Value(hunter_error_result(<<company_number>>,
                                     "API_ERROR",
                                     "Failed to get search results from API",
                                     search_query))
                 ELSE LET websites ==
                              extract_websites_from_results(search_results.value)
                          total_results ==
                              Len(Get(search_results.value, "organic", <<>>))
                      IN  hunt_out' = Value(WebsiteSearchResult(
                              identifiers, search_query, websites,
                              IF websites # <<>> THEN "SUCCESS"
                              ELSE "NO_WEBSITES_FOUND",
                              IF websites # <<>> THEN "Successfully found"
                              ELSE "No valid websites found",
                              quota_remaining, total_results))
    /\ hunt_pc' = "done"
    /\ UNCHANGED <<query_version, hunt_args, quota_remaining, hunt_prev>>
    /\ UNCHANGED not_hunter_vars

\* a query builder called on its own
HunterBuild ==
    /\ hunt_pc = "call"
    /\ hunt_args.op = "_build_search_query"
    /\ hunt_out' = build_search_query(query_version, hunt_args.identifiers,
                                      SearchKeywords, ExcludedDomains)
    /\ hunt_pc' = "done"
    /\ UNCHANGED <<query_version, hunt_args, quota_remaining, hunt_log, hunt_prev>>
    /\ UNCHANGED <<since_last, last_gap>>
    /\ UNCHANGED not_hunter_vars

\* _extract_websites_from_results called on its own
HunterExtract ==
    /\ hunt_pc = "call"
    /\ hunt_args.op = "_extract_websites_from_results"
    /\ hunt_out' = Value(extract_websites_from_results(hunt_args.search_results))
    /\ hunt_pc' = "done"
    /\ UNCHANGED <<query_version, hunt_args, quota_remaining, hunt_log, hunt_prev>>
    /\ UNCHANGED <<since_last, last_gap>>
    /\ UNCHANGED not_hunter_vars

\* the search requests of the call in hand
SearchGets ==
    {k \in 1..Len(hunt_log) : hunt_log[k].op = "GET" /\ hunt_log[k].url = "search"}
StatusGets ==
    {k \in 1..Len(hunt_log) : hunt_log[k].op = "GET" /\ hunt_log[k].url = "status"}

\* the finished call was a search that failed: how, and what was returned
FailureOfCall ==
    IF /\ hunt_args.op = "find_company_website"
       /\ SearchGets # {}
       /\ hunt_out.value.search_status \notin {"SUCCESS", "NO_WEBSITES_FOUND"}
    THEN [cause |-> CauseOf(hunt_log[CHOOSE k \in SearchGets : TRUE].response),
          status |-> hunt_out.value.search_status,
          notes |-> hunt_out.value.processing_notes]
    ELSE hunt_prev

\* the client is called again; it remembers nothing of the call before, the
\* model keeps how the last failed search failed
NextCallOf(calls) ==
    /\ hunt_pc = "done"
    /\ hunt_prev' = FailureOfCall
    /\ hunt_args' \in calls
    /\ hunt_pc' = "call"
    /\ hunt_log' = <<>>
    /\ quota_remaining' = None
    /\ hunt_out' = Value(<<>>)
    /\ UNCHANGED <<query_version, since_last, last_gap>>
    /\ UNCHANGED not_hunter_vars

HunterNextCall == NextCallOf(HunterCalls)

\* the calls of the timed client
RateCalls == {FindCall(HC_number), FindCall(HC_empty)}

RateNextCall == NextCallOf(RateCalls)

\* a tick of the clock, between any two steps of the client
HunterTick ==
    /\ hunt_pc # "idle"
    /\ since_last < min_request_delay
    /\ since_last' = since_last + 1
    /\ UNCHANGED <<query_version, hunt_pc, hunt_args, quota_remaining, hunt_log,
                   hunt_out, hunt_prev, last_gap>>
    /\ UNCHANGED not_hunter_vars

---------------------------------------------------------------------------
(* LinkedInFinder *)

\* LinkedInFinder._extract_domain_from_website: the scheme is added when
\* missing, the network location is lower-cased and loses one leading www.
extract_domain_from_website(website) == strip_www(Lower(website.netloc))

\* a relevance test that lets every score through
is_relevant_any(score) == TRUE

\* line 358: a result with score 0 is skipped
is_relevant(score) == score # 0

\* _score_linkedin_result: the score and what matched
score_linkedin_result(result, company_name, website) ==
    LET description == Lower(result.description.value)
        company_lower == Lower(company_name)
        name_points == IF IsSubstr(company_lower, description) THEN 1 ELSE 0
        domain_points ==
            IF ~website.none
               /\ extract_domain_from_website(website.value) # <<>>
               /\ IsSubstr(extract_domain_from_website(website.value), description)
            THEN 2 ELSE 0
    IN  [score |-> name_points + domain_points,
         match_details |-> <<name_points = 1, domain_points = 2>>]

S_linkedin == <<"l", "i", "n", "k", "e", "d", "i", "n", ".", "c", "o", "m">>
S_company == <<"/", "c", "o", "m", "p", "a", "n", "y", "/">>
S_in == <<"/", "i", "n", "/">>

\* LinkedInResult
LinkedInResult(result, scored) ==
    [url |-> result.url, description |-> result.description.value,
     position |-> result.position, score |-> scored.score,
     match_details |-> scored.match_details]

\* LinkedInResult.is_company_url and is_employee_url
is_company_url(r) == IsSubstr(S_company, Lower(r.url))
is_employee_url(r) == IsSubstr(S_in, Lower(r.url))

\* list.sort(key=lambda x: x.score, reverse=True), which is stable
RECURSIVE InsertByScore(_, _)
InsertByScore(sorted, x) ==
    IF sorted = <<>> THEN <<x>>
    ELSE IF Head(sorted).score < x.score THEN <<x>> \o sorted
    ELSE <<Head(sorted)>> \o InsertByScore(Tail(sorted), x)
RECURSIVE SortByScore(_, _)
SortByScore(rs, k) ==
    IF k = 0 THEN <<>> ELSE InsertByScore(SortByScore(rs, k - 1), rs[k])

\* the for loop of _process_zenserp_results (lines 344-380); a description
\* of null makes .lower() raise
RECURSIVE ProcessLoop(_, _, _, _)
ProcessLoop(organic_results, company_name, website, acc) ==
    IF organic_results = <<>> \/ acc.raised # "" THEN acc
    ELSE
      LET result == Head(organic_results)
          rest == Tail(organic_results)
      IN  IF ~IsSubstr(S_linkedin, Lower(result.url))
          THEN ProcessLoop(rest, company_name, website, acc)
          ELSE IF result.description.none
          THEN [acc EXCEPT !.raised = "AttributeError"]
          ELSE
            LET scored == score_linkedin_result(result, company_name, website)
                linkedin_result == LinkedInResult(result, scored)
            IN  IF ~is_relevant(scored.score)
                THEN ProcessLoop(rest, company_name, website, acc)
                ELSE IF is_company_url(linkedin_result)
                THEN ProcessLoop(rest, company_name, website,
                         [acc EXCEPT !.company_urls = Append(@, linkedin_result)])
                ELSE IF is_employee_url(linkedin_result)
                THEN ProcessLoop(rest, company_name, website,
                         [acc EXCEPT !.employee_urls = Append(@, linkedin_result)])
                ELSE ProcessLoop(rest, company_name, website, acc)

\* _process_zenserp_results
process_zenserp_results(zenserp_data, company_name, website) ==
    LET found == ProcessLoop(Get(zenserp_data, "organic", <<>>), company_name,
                             website,
                             [raised |-> "", company_urls |-> <<>>,
                              employee_urls |-> <<>>])
    IN  [raised |-> found.raised,
         company_urls |-> SortByScore(found.company_urls, Len(found.company_urls)),
         employee_urls |-> SortByScore(found.employee_urls, Len(found.employee_urls))]

\* _build_linkedin_query: the name, and the domain if the website has one
build_linkedin_query(company_name, website) ==
    [company_name |-> company_name,
     domain |-> IF ~website.none /\ website.value.netloc # <<>>
                THEN extract_domain_from_website(website.value) ELSE <<>>]
NoLinkedInQuery == [company_name |-> <<>>, domain |-> <<>>]

\* LinkedInSearchResult
LinkedInSearchResult(company_name, website, search_query, company_urls, employee_urls, search_status, processing_notes) ==
    [company_name |-> company_name,
     website |-> website,
     search_query |-> search_query,
     company_urls |-> company_urls,
     employee_urls |-> employee_urls,
     total_results_found |-> Len(company_urls) + Len(employee_urls),
     search_status |-> search_status,
     processing_notes |-> processing_notes]

\* LinkedInFinder._create_error_result
linkedin_error_result(company_name, website, status, message, query) ==
    LinkedInSearchResult(company_name, website, query, <<>>, <<>>, status, message)

\* the company names and websites the finder is called with
LN_acme == <<"A", "c", "m", "e">>
LN_acme_spaced == <<" ", "a", "c", "m", "e", " ">>
LinkedInNames == {LN_acme, LN_acme_spaced, <<>>, <<" ">>}

W_a == ResultUrl("", H_a)
W_www_A == ResultUrl("https://", WwwDot \o H_A)
W_b == ResultUrl("", H_b)
LinkedInWebsites == {None, Some(W_a), Some(W_www_A), Some(W_b)}

\* the URLs and descriptions of organic results
LU_company == <<"l", "i", "n", "k", "e", "d", "i", "n", ".", "c", "o", "m", "/", "c", "o", "m", "p", "a", "n", "y", "/", "a">>
LU_company_upper == <<"L", "i", "n", "k", "e", "d", "I", "n", ".", "c", "o", "m", "/", "C", "o", "m", "p", "a", "n", "y", "/", "A">>
LU_in == <<"l", "i", "n", "k", "e", "d", "i", "n", ".", "c", "o", "m", "/", "i", "n", "/", "b">>
LU_jobs == <<"l", "i", "n", "k", "e", "d", "i", "n", ".", "c", "o", "m", "/", "j", "o", "b", "s">>
LU_elsewhere == <<"x", ".", "c", "o", "/", "i", "n", "/", "b">>
LD_none == <<"h", "i">>
LD_name == <<"a", "t", " ", "A", "C", "M", "E">>
LD_domain == <<"s", "e", "e", " ", "A", ".", "c", "o">>
LD_both == <<"a", "c", "m", "e", " ", "a", ".", "c", "o">>

SerpResult(url, description) == [url |-> url, description |-> description]

SerpResults ==
    {SerpResult(u, Some(d)) : u \in {LU_company, LU_in},
                              d \in {LD_none, LD_name, LD_domain, LD_both}}
    \cup {SerpResult(LU_company_upper, Some(LD_domain)),
          SerpResult(LU_jobs, Some(LD_both)),
          SerpResult(LU_elsewhere, Some(LD_both)),
          SerpResult(LU_company, None)}

\* position is the rank the API gives the result
Positioned(rs) ==
    [k \in 1..Len(rs) |-> [url |-> rs[k].url, description |-> rs[k].description,
                           position |-> k]]

\* the answers to the finder's search request
LinkedInResponses ==
    {ApiResponse(401, TRUE, <<>>), ApiRequestException,
     ApiResponse(200, TRUE, <<>>)}
    \cup {ApiResponse(200, TRUE, [organic |-> Positioned(rs)]) :
            rs \in UNION {[1..n -> SerpResults] : n \in 0..MaxProfiles}}

\* lines 420-429: the check of the company name
LinkedInValidate ==
    /\ li_pc = "call"
    /\ IF li_args.company_name = <<>> \/ Strip(li_args.company_name) = <<>>
       THEN /\ li_out' = linkedin_error_result(<<>>, li_args.website,
                             "INVALID_COMPANY_NAME", "Company name cannot be empty",
                             NoLinkedInQuery)
            /\ li_pc' = "done"
       ELSE /\ li_pc' = "search"
            /\ UNCHANGED li_out
    /\ UNCHANGED <<li_args, li_response>>
    /\ UNCHANGED not_linkedin_vars

\* lines 435-495: the query, the request, the scoring and the result
LinkedInSearch ==
    /\ li_pc = "search"
    /\ \E response \in LinkedInResponses :
         LET company_name == Strip(li_args.company_name)
             website == li_args.website
             query == build_linkedin_query(company_name, website)
             zenserp_data == make_search_request(response)
         IN
         /\ li_response' = response
         /\ IF zenserp_data.none \/ ~Truthy(zenserp_data.value)
            THEN li_out' = linkedin_error_result(company_name, website,
                               "API_ERROR", "Failed to get search results", query)
            ELSE LET p == process_zenserp_results(zenserp_data.value,
                                                  company_name, website)
                 IN  IF p.raised # ""
                     THEN li_out' = linkedin_error_result(company_name, website,
                                        "PARSING_ERROR", "Search failed", query)
                     ELSE li_out' = LinkedInSearchResult(
                              company_name, website, query,
                              p.company_urls, p.employee_urls,
                              IF Len(p.company_urls) + Len(p.employee_urls) = 0
                              THEN "NO_RESULTS_FOUND" ELSE "SUCCESS",
                              IF Len(p.company_urls) + Len(p.employee_urls) = 0
                              THEN "No LinkedIn profiles found" ELSE "Found")
    /\ li_pc' = "done"
    /\ UNCHANGED li_args
    /\ UNCHANGED not_linkedin_vars

---------------------------------------------------------------------------
(* Regular expressions, as ContactExtractor uses Python's re module *)

Digits == {"0", "1", "2", "3", "4", "5", "6", "7", "8", "9"}
Letters ==
    {"a", "b", "c", "d", "e", "f", "g", "h", "i", "j", "k", "l", "m", "n", "o", "p", "q", "r", "s", "t", "u", "v", "w", "x", "y", "z"}
    \cup {"A", "B", "C", "D", "E", "F", "G", "H", "I", "J", "K", "L", "M", "N", "O", "P", "Q", "R", "S", "T", "U", "V", "W", "X", "Y", "Z"}
\* what \s matches in the pages of the model
WhiteSpace == {" ", "\n", "\t"}

StartsWith(s, prefix) ==
    Len(prefix) <= Len(s) /\ SubSeq(s, 1, Len(prefix)) = prefix

\* the trees of a pattern: one character of a class, a sequence, an
\* alternation, a greedy repetition {min,max}, and the assertion \b
Chr(set) == [t |-> "chr", set |-> set]
Cat(parts) == [t |-> "cat", parts |-> parts]
Alt(alts) == [t |-> "alt", alts |-> alts]
Rep(r, min, max) == [t |-> "rep", r |-> r, min |-> min, max |-> max]
WordBoundary == [t |-> "wb"]
\* a literal text
Lit(text) == Cat([k \in 1..Len(text) |-> Chr({text[k]})])
\* a literal text under re.IGNORECASE
LitIgnoreCase(text) ==
    Cat([k \in 1..Len(text) |-> Chr({LowerChar(text[k]), UpperChar(text[k])})])

\* \w at offset i of s: the character s[i], none outside the text
IsWordAt(s, i) ==
    i >= 1 /\ i <= Len(s) /\ (s[i] \in Letters \cup Digits \cup {"_"})

\* The offsets at which a match of r that starts at offset i of s can end, in
\* the order the backtracking matcher tries them: the first is the match.
RECURSIVE Ends(_, _, _)
RECURSIVE EndsFrom(_, _, _, _)
RECURSIVE CatEnds(_, _, _, _)
RECURSIVE AltEnds(_, _, _, _)
RECURSIVE RepEnds(_, _, _, _, _)
RECURSIVE RepFrom(_, _, _, _, _, _)
Ends(r, s, i) ==
    CASE r.t = "chr" ->
            IF i < Len(s) /\ s[i + 1] \in r.set THEN <<i + 1>> ELSE <<>>
      [] r.t = "wb" ->
            IF IsWordAt(s, i) # IsWordAt(s, i + 1) THEN <<i>> ELSE <<>>
      [] r.t = "cat" -> CatEnds(r.parts, 1, s, <<i>>)
      [] r.t = "alt" -> AltEnds(r.alts, 1, s, i)
      [] r.t = "rep" -> RepEnds(r.r, r.min, r.max, s, i)
\* the ends of r from each of the offsets, in order
EndsFrom(r, s, starts, k) ==
    IF k > Len(starts) THEN <<>>
    ELSE Ends(r, s, starts[k]) \o EndsFrom(r, s, starts, k + 1)
CatEnds(parts, k, s, starts) ==
    IF k > Len(parts) THEN starts
    ELSE CatEnds(parts, k + 1, s, EndsFrom(parts[k], s, starts, 1))
AltEnds(alts, k, s, i) ==
    IF k > Len(alts) THEN <<>>
    ELSE Ends(alts[k], s, i) \o AltEnds(alts, k + 1, s, i)
\* greedy: one more repetition is tried before stopping
RepEnds(r, min, max, s, i) ==
    (IF max = 0 THEN <<>> ELSE RepFrom(r, min, max, s, Ends(r, s, i), 1))
    \o (IF min <= 0 THEN <<i>> ELSE <<>>)
RepFrom(r, min, max, s, starts, k) ==
    IF k > Len(starts) THEN <<>>
    ELSE RepEnds(r, min - 1, max - 1, s, starts[k])
         \o RepFrom(r, min, max, s, starts, k + 1)

\* pattern.findall(content) of a pattern without groups: the matches from
\* left to right, each search resuming where the last match ended
RECURSIVE FindAllFrom(_, _, _)
FindAllFrom(r, s, i) ==
    IF i > Len(s) THEN <<>>
    ELSE LET ends == Ends(r, s, i)
         IN  IF ends = <<>> THEN FindAllFrom(r, s, i + 1)
             ELSE <<SubSeq(s, i + 1, ends[1])>>
                  \o FindAllFrom(r, s, IF ends[1] = i THEN i + 1 ELSE ends[1])
findall(r, content) == FindAllFrom(r, content, 0)

---------------------------------------------------------------------------
(* ContactExtractor: pure parts *)

Digit == Chr(Digits)
OptSpace == Rep(Chr(WhiteSpace), 0, 1)
\* (?:1[1-9]\d{1,2}|2[0-9]|3[0-9])
AreaCode ==
    Alt(<< Cat(<<Chr({"1"}), Chr(Digits \ {"0"}), Rep(Digit, 1, 2)>>),
           Cat(<<Chr({"2"}), Digit>>),
           Cat(<<Chr({"3"}), Digit>>) >>)
\* \s?\d{3,4}\s?\d{3,4}\b
LocalNumber ==
    Cat(<<OptSpace, Rep(Digit, 3, 4), OptSpace, Rep(Digit, 3, 4), WordBoundary>>)
\* \s?\d{3}\s?\d{4}\b
ServiceNumber ==
    Cat(<<OptSpace, Rep(Digit, 3, 3), OptSpace, Rep(Digit, 4, 4), WordBoundary>>)

\* self.phone_patterns, in the order of the list
phone_patterns ==
    << \* landline with area code
       Cat(<<WordBoundary, Chr({"0"}), AreaCode, LocalNumber>>),
       \* mobile
       Cat(<<WordBoundary,
             Alt(<<Cat(<<Lit(<<"+", "4", "4">>), OptSpace, Chr({"7"})>>), Lit(<<"0", "7">>)>>),
             Rep(Digit, 3, 3), OptSpace, Rep(Digit, 3, 3), OptSpace,
             Rep(Digit, 3, 3), WordBoundary>>),
       \* freephone
       Cat(<<WordBoundary, Chr({"0"}), Alt(<<Lit(<<"8", "0", "0">>), Lit(<<"8", "0", "8">>)>>),
             ServiceNumber>>),
       \* local and national rate
       Cat(<<WordBoundary, Chr({"0"}),
             Alt(<<Lit(<<"8", "4", "5">>), Lit(<<"8", "7", "0">>), Lit(<<"8", "7", "1">>), Lit(<<"8", "7", "2">>),
                   Lit(<<"8", "7", "3">>)>>),
             ServiceNumber>>),
       \* premium rate
       Cat(<<WordBoundary, Lit(<<"0", "9">>), Rep(Digit, 2, 2), ServiceNumber>>),
       \* international
       Cat(<<Lit(<<"+", "4", "4">>), OptSpace,
             Alt(<< Cat(<<Chr({"1"}), Chr(Digits \ {"0"}), Rep(Digit, 1, 2)>>),
                    Cat(<<Chr({"2"}), Digit>>),
                    Cat(<<Chr({"3"}), Digit>>),
                    Cat(<<Chr({"7"}), Rep(Digit, 3, 3)>>) >>),
             LocalNumber>>),
       \* area code in brackets
       Cat(<<Chr({"("}), Chr({"0"}), AreaCode, Chr({")"}), LocalNumber>>),
       \* dashes
       Cat(<<WordBoundary, Chr({"0"}), AreaCode, Chr({"-"}), Rep(Digit, 3, 4),
             Chr({"-"}), Rep(Digit, 3, 4), WordBoundary>>) >>

\* lines 409-416
uk_test_numbers ==
    << <<"0", "1", "2", "3", "4", "5", "6", "7", "8", "9", "0">>,
       <<"0", "2", "0", "7", "9", "4", "6", "0", "0", "0", "0">>,
       <<"0", "1", "2", "1", "4", "9", "6", "0", "0", "0", "0">>,
       <<"0", "7", "7", "0", "0", "9", "0", "0", "0", "0", "0">>,
       <<"0", "8", "0", "0", "1", "1", "1", "1", "1", "1", "1">>,
       <<"0", "9", "9", "9", "9", "9", "9", "9", "9", "9", "9">> >>

\* _is_valid_uk_number
is_valid_uk_number(digits) ==
    LET digits_only == IF StartsWith(digits, <<"4", "4">>)
                       THEN <<"0">> \o SubSeq(digits, 3, Len(digits))
                       ELSE digits
        starts(prefix) == StartsWith(digits_only, prefix)
    IN  CASE Len(digits_only) \notin {10, 11} -> FALSE
          [] ~starts(<<"0">>) -> FALSE
          [] Len(digits_only) = 11 ->
                \/ starts(<<"0", "7">>)
                \/ starts(<<"0", "1">>)
                \/ starts(<<"0", "2", "0">>)
                \/ \E city \in {<<"0", "1", "2", "1">>, <<"0", "1", "3", "1">>, <<"0", "1", "4", "1">>, <<"0", "1", "5", "1">>, <<"0", "1", "6", "1">>, <<"0", "1", "9", "1">>} : starts(city)
                \/ starts(<<"0", "8", "0", "0">>) \/ starts(<<"0", "8", "0", "8">>)
                \/ \E service \in {<<"0", "8", "4", "5">>, <<"0", "8", "7", "0">>, <<"0", "8", "7", "1">>, <<"0", "8", "7", "2">>, <<"0", "8", "7", "3">>} : starts(service)
                \/ starts(<<"0", "9">>)
          [] OTHER ->
                \/ starts(<<"0", "2">>)
                \/ \E city \in {<<"0", "1", "2">>, <<"0", "1", "3">>, <<"0", "1", "4">>, <<"0", "1", "5">>, <<"0", "1", "6">>, <<"0", "1", "9">>} : starts(city)
                \/ starts(<<"0", "8", "0", "0">>) \/ starts(<<"0", "8", "0", "8">>)
                \/ \E service \in {<<"0", "8", "4", "5">>, <<"0", "8", "7", "0">>, <<"0", "8", "7", "1">>, <<"0", "8", "7", "2">>, <<"0", "8", "7", "3">>} : starts(service)

\* re.sub(r'[^\d+\s()-]', '', match.strip())
IsPhoneChar(c) == c \in Digits \cup WhiteSpace \cup {"+", "(", ")", "-"}
clean_phone_of(match) == SelectSeq(Strip(match), IsPhoneChar)

\* lines 402-431: whether a match is added to the set
phone_accepted(match) ==
    LET clean_phone == clean_phone_of(match)
        digits_only == SelectSeq(clean_phone, IsDigit)
    IN  /\ ~(Len(digits_only) < 10 \/ Len(digits_only) > 13)
        /\ ~\E k \in 1..Len(uk_test_numbers) :
                IsSubstr(uk_test_numbers[k], digits_only)
        /\ is_valid_uk_number(digits_only)
        /\ ~(Cardinality(Range(digits_only)) < 3 /\ Len(digits_only) > 8)
        /\ clean_phone # <<>>

\* the set phone_numbers after both content sources were searched
phone_numbers_found(text, html) ==
    {clean_phone_of(match) :
        match \in {m \in UNION {Range(findall(phone_patterns[p], content)) :
                                   p \in 1..Len(phone_patterns),
                                   content \in {text, html} \ {<<>>}} :
                     phone_accepted(m)}}

\* list(found)[:limit]: a set has no order, any limit of its members can come
first_of_set(found, limit) ==
    {kept \in SUBSET found :
        Cardinality(kept) = (IF Cardinality(found) < limit
                             THEN Cardinality(found) ELSE limit)}

\* str.split(sep)
RECURSIVE Split(_, _, _)
Split(s, sep, chunk) ==
    IF s = <<>> THEN <<chunk>>
    ELSE IF StartsWith(s, sep)
         THEN <<chunk>> \o Split(SubSeq(s, Len(sep) + 1, Len(s)), sep, <<>>)
         ELSE Split(Tail(s), sep, Append(chunk, Head(s)))

\* ' '.join(chunks)
RECURSIVE JoinSpace(_)
JoinSpace(chunks) ==
    IF chunks = <<>> THEN <<>>
    ELSE IF Len(chunks) = 1 THEN chunks[1]
    ELSE chunks[1] \o <<" ">> \o JoinSpace(Tail(chunks))

RECURSIVE Flatten(_)
Flatten(ss) == IF ss = <<>> THEN <<>> ELSE Head(ss) \o Flatten(Tail(ss))

NotEmpty(chunk) == chunk # <<>>

\* ContactExtractor._extract_text_content of a page without markup: the
\* lines stripped, split at double spaces, the chunks stripped and joined
contact_text_content(html_content) ==
    LET lines == Split(html_content, <<"\n">>, <<>>)
        stripped_lines == [k \in 1..Len(lines) |-> Strip(lines[k])]
        phrases(line) == LET ps == Split(line, <<" ", " ">>, <<>>)
                         IN  [k \in 1..Len(ps) |-> Strip(ps[k])]
        chunks == Flatten([k \in 1..Len(lines) |-> phrases(stripped_lines[k])])
    IN  JoinSpace(SelectSeq(chunks, NotEmpty))

\* a repetition without an upper limit
Unbounded == -1

\* self.email_pattern
email_pattern ==
    Cat(<<WordBoundary,
          Rep(Chr(Letters \cup Digits \cup {".", "_", "%", "+", "-"}), 1, Unbounded),
          Chr({"@"}),
          Rep(Chr(Letters \cup Digits \cup {".", "-"}), 1, Unbounded),
          Chr({"."}),
          Rep(Chr(Letters \cup {"|"}), 2, Unbounded),
          WordBoundary>>)

\* (?:https?://)?(?:www\.)?
OptionalPrefix ==
    Cat(<<Rep(Cat(<<LitIgnoreCase(<<"h", "t", "t", "p">>), Rep(Chr({"s", "S"}), 0, 1),
                    Lit(<<":", "/", "/">>)>>), 0, 1),
          Rep(LitIgnoreCase(<<"w", "w", "w", ".">>), 0, 1)>>)
ProfileName == Rep(Chr(Letters \cup Digits \cup {".", "_", "-"}), 1, Unbounded)

\* self.social_patterns
social_patterns ==
    [facebook |-> Cat(<<OptionalPrefix, LitIgnoreCase(<<"f", "a", "c", "e", "b", "o", "o", "k", ".", "c", "o", "m", "/">>), ProfileName>>),
     instagram |-> Cat(<<OptionalPrefix, LitIgnoreCase(<<"i", "n", "s", "t", "a", "g", "r", "a", "m", ".", "c", "o", "m", "/">>), ProfileName>>),
     linkedin |-> Cat(<<OptionalPrefix, LitIgnoreCase(<<"l", "i", "n", "k", "e", "d", "i", "n", ".", "c", "o", "m", "/">>),
                        Alt(<<LitIgnoreCase(<<"i", "n">>), LitIgnoreCase(<<"c", "o", "m", "p", "a", "n", "y">>)>>),
                        Chr({"/"}), ProfileName>>)]

\* lines 543-546
email_excludes ==
    << <<"e", "x", "a", "m", "p", "l", "e", ".", "c", "o", "m">>,
       <<"t", "e", "s", "t", ".", "c", "o", "m">>,
       <<"d", "u", "m", "m", "y", ".", "c", "o", "m">>,
       <<"p", "l", "a", "c", "e", "h", "o", "l", "d", "e", "r">>,
       <<"y", "o", "u", "r", "n", "a", "m", "e", "@">>,
       <<"n", "a", "m", "e", "@", "d", "o", "m", "a", "i", "n">>,
       <<"@", "e", "x", "a", "m", "p", "l", "e">>,
       <<"n", "o", "r", "e", "p", "l", "y", "@">> >>

\* lines 585-588
social_excludes ==
    << <<"/", "s", "h", "a", "r", "e", "r", "/">>,
       <<"/", "s", "h", "a", "r", "e", "?">>,
       <<"/", "l", "o", "g", "i", "n">>,
       <<"/", "s", "i", "g", "n", "u", "p">>,
       <<"/", "h", "o", "m", "e">>,
       <<"f", "a", "c", "e", "b", "o", "o", "k", ".", "c", "o", "m", "/", "p", "a", "g", "e", "s">>,
       <<"f", "a", "c", "e", "b", "o", "o", "k", ".", "c", "o", "m", "/", "p", "g">> >>

ContainsAny(text, excludes) ==
    \E k \in 1..Len(excludes) : IsSubstr(excludes[k], text)

\* the set email_addresses after both content sources were searched
email_addresses_found(text, html) ==
    {email \in {Strip(Lower(match)) :
                  match \in UNION {Range(findall(email_pattern, content)) :
                                     content \in {text, html} \ {<<>>}}} :
        ~ContainsAny(email, email_excludes)}

\* lines 580-582
social_url(match) ==
    LET url == Strip(match)
    IN  IF StartsWith(url, <<"h", "t", "t", "p">>) THEN url ELSE <<"h", "t", "t", "p", "s", ":", "/", "/">> \o url

\* the set social_links[platform] after both content sources were searched
social_links_found(platform, text, html) ==
    {url \in {social_url(match) :
                match \in UNION {Range(findall(social_patterns[platform], content)) :
                                   content \in {text, html} \ {<<>>}}} :
        ~ContainsAny(Lower(url), social_excludes)}

Platforms == {"facebook", "instagram", "linkedin"}

---------------------------------------------------------------------------
(* The numbers and pages the contact extractor meets *)

\* a UK number in the groups it is written in
PhoneNumber(area, mid, last) == [area |-> area, mid |-> mid, last |-> last]
NationalDigits(n) == n.area \o n.mid \o n.last

\* the six test numbers of lines 409-416
TN_common == PhoneNumber(<<"0", "1", "2", "3", "4">>, <<"5", "6", "7">>, <<"8", "9", "0">>)
TN_london == PhoneNumber(<<"0", "2", "0">>, <<"7", "9", "4", "6">>, <<"0", "0", "0", "0">>)
TN_birmingham == PhoneNumber(<<"0", "1", "2", "1">>, <<"4", "9", "6">>, <<"0", "0", "0", "0">>)
TN_mobile == PhoneNumber(<<"0", "7", "7", "0", "0">>, <<"9", "0", "0">>, <<"0", "0", "0">>)
TN_freephone == PhoneNumber(<<"0", "8", "0", "0">>, <<"1", "1", "1">>, <<"1", "1", "1", "1">>)
TN_premium == PhoneNumber(<<"0", "9", "9", "9">>, <<"9", "9", "9">>, <<"9", "9", "9", "9">>)
TestNumbers == {TN_common, TN_london, TN_birmingham, TN_mobile, TN_freephone,
                TN_premium}
\* numbers in use
UN_birmingham == PhoneNumber(<<"0", "1", "2", "1">>, <<"4", "9", "6">>, <<"0", "0", "0", "1">>)
UN_mobile == PhoneNumber(<<"0", "7", "1", "2", "3">>, <<"4", "5", "6">>, <<"7", "8", "9">>)
PhoneNumbers == TestNumbers \cup {UN_birmingham, UN_mobile}

\* the formats the comments of phone_patterns name (lines 157-179)
PhoneStyles == {"compact", "spaces", "brackets", "dashes", "plus44",
                "plus44_compact"}
FormatPhone(n, style) ==
    CASE style = "compact" -> n.area \o n.mid \o n.last
      [] style = "spaces" -> n.area \o <<" ">> \o n.mid \o <<" ">> \o n.last
      [] style = "brackets" ->
            <<"(">> \o n.area \o <<")", " ">> \o n.mid \o <<" ">> \o n.last
      [] style = "dashes" -> n.area \o <<"-">> \o n.mid \o <<"-">> \o n.last
      [] style = "plus44" ->
            <<"+", "4", "4", " ">> \o Tail(n.area) \o <<" ">> \o n.mid
            \o <<" ">> \o n.last
      [] style = "plus44_compact" ->
            <<"+", "4", "4">> \o Tail(n.area) \o n.mid \o n.last

\* what stands before the number on the page
PhoneLeads == {<<>>, <<"T", "e", "l", " ">>}
PhoneCall(number, style, lead) ==
    [number |-> number, style |-> style,
     html |-> lead \o FormatPhone(number, style)]
PhoneCalls ==
    {PhoneCall(n, style, lead) :
        n \in PhoneNumbers, style \in PhoneStyles, lead \in PhoneLeads}

---------------------------------------------------------------------------
(* ContactExtractor._extract_phone_numbers, called on one page *)

\* lines 386-434: the list returned for the page
ExtractPhoneNumbers ==
    /\ ph_pc = "call"
    /\ LET html == ph_args.html
           text == contact_text_content(html)
       IN  \E kept \in first_of_set(phone_numbers_found(text, html),
                                    max_phone_numbers) :
               ph_out' = kept
    /\ ph_pc' = "done"
    /\ UNCHANGED ph_args
    /\ UNCHANGED not_phone_vars

---------------------------------------------------------------------------
(* ContactExtractor: page discovery and the crawl of one domain *)

\* a URL: scheme, host and path
ContactUrl(scheme, netloc, path) ==
    [scheme |-> scheme, netloc |-> netloc, path |-> path]
url_text(url) == url.scheme \o <<":", "/", "/">> \o url.netloc \o url.path

\* lines 221 and 327: the two homepage URLs, https first
homepage_urls(domain) ==
    << ContactUrl(<<"h", "t", "t", "p", "s">>, domain, <<>>), ContactUrl(<<"h", "t", "t", "p">>, domain, <<>>) >>

\* the href of an anchor: a path of the page's site, a URL of its own, or a
\* text urljoin cannot parse, such as 'http://['
Href(netloc, path) == [valid |-> TRUE, netloc |-> netloc, path |-> path]
MalformedHref == [valid |-> FALSE, netloc |-> None, path |-> <<>>]

\* urljoin(homepage_url, href) of a valid href
urljoin(homepage_url, href) ==
    IF href.netloc = None
    THEN ContactUrl(homepage_url.scheme, homepage_url.netloc, href.path)
    ELSE ContactUrl(<<"h", "t", "t", "p", "s">>, href.netloc.value, href.path)

\* _extract_links_from_homepage: home is the scheme under which the homepage
\* answered 200, "none" when neither did. A ValueError of urljoin is no
\* RequestException and leaves the function.
extract_links_from_homepage(domain, home, anchors) ==
    IF home = "none" THEN Value(<<>>)
    ELSE IF \E k \in 1..Len(anchors) : ~anchors[k].valid
    THEN Raised("ValueError")
    ELSE LET homepage_url == IF home = "https" THEN homepage_urls(domain)[1]
                             ELSE homepage_urls(domain)[2]
         IN  Value([k \in 1..Len(anchors) |-> urljoin(homepage_url, anchors[k])])

\* contact_keywords + legal_keywords
all_keywords ==
    << <<"c", "o", "n", "t", "a", "c", "t">>,
       <<"a", "b", "o", "u", "t">>,
       <<"t", "e", "a", "m">>,
       <<"s", "t", "a", "f", "f">>,
       <<"o", "f", "f", "i", "c", "e">>,
       <<"l", "o", "c", "a", "t", "i", "o", "n">>,
       <<"p", "h", "o", "n", "e">>,
       <<"e", "m", "a", "i", "l">>,
       <<"r", "e", "a", "c", "h">>,
       <<"t", "o", "u", "c", "h">>,
       <<"c", "o", "n", "n", "e", "c", "t">>,
       <<"s", "u", "p", "p", "o", "r", "t">>,
       <<"h", "e", "l", "p">>,
       <<"c", "u", "s", "t", "o", "m", "e", "r">>,
       <<"s", "e", "r", "v", "i", "c", "e">>,
       <<"i", "n", "f", "o">>,
       <<"i", "n", "f", "o", "r", "m", "a", "t", "i", "o", "n">>,
       <<"p", "r", "i", "v", "a", "c", "y">>,
       <<"t", "e", "r", "m", "s">>,
       <<"l", "e", "g", "a", "l">>,
       <<"p", "o", "l", "i", "c", "y">>,
       <<"c", "o", "o", "k", "i", "e", "s">>,
       <<"d", "i", "s", "c", "l", "a", "i", "m", "e", "r">>,
       <<"i", "m", "p", "r", "i", "n", "t">>,
       <<"i", "m", "p", "r", "e", "s", "s", "u", "m">> >>

\* lines 283-299: same domain, and a keyword in the path or in the URL
is_contact_relevant(domain, url) ==
    LET lowered == Lower(url.netloc)
        url_domain == IF StartsWith(lowered, WwwDot)
                      THEN SubSeq(lowered, 5, Len(lowered)) ELSE lowered
    IN  /\ url_domain = Lower(domain)
        /\ \E k \in 1..Len(all_keywords) :
              \/ IsSubstr(all_keywords[k], Lower(url.path))
              \/ IsSubstr(all_keywords[k], Lower(url_text(url)))

RECURSIVE SelectRelevant(_, _)
SelectRelevant(domain, links) ==
    IF links = <<>> THEN <<>>
    ELSE (IF is_contact_relevant(domain, Head(links)) THEN <<Head(links)>> ELSE <<>>)
         \o SelectRelevant(domain, Tail(links))

\* _filter_contact_relevant_links: the relevant links, duplicates removed
filter_contact_relevant_links(domain, all_links) ==
    LET filtered_links == SelectRelevant(domain, all_links)
    IN  Unique(filtered_links, Len(filtered_links))

\* _find_contact_pages: the homepage URLs, then the relevant links, cut to
\* max_pages_per_site
find_contact_pages(domain, home, anchors) ==
    LET all_links == extract_links_from_homepage(domain, home, anchors)
    IN  IF all_links.raised # "" THEN all_links
        ELSE Value(Take(homepage_urls(domain)
                        \o (IF all_links.value # <<>>
                            THEN filter_contact_relevant_links(domain, all_links.value)
                            ELSE <<>>),
                        max_pages_per_site))

\* ContactExtractionStatus
SUCCESS == "SUCCESS"
NO_CONTACT_INFO_FOUND == "NO_CONTACT_INFO_FOUND"
CRAWL_ERROR == "CRAWL_ERROR"

\* ContactInformation(domain=domain): the lists are bags while pages are
\* crawled, because list.extend keeps duplicates and their order is not used
ContactInformation(domain) ==
    [domain |-> domain,
     phone_numbers |-> EmptyBag,
     email_addresses |-> EmptyBag,
     facebook_links |-> EmptyBag,
     instagram_links |-> EmptyBag,
     linkedin_links |-> EmptyBag,
     pages_crawled |-> 0,
     pages_with_contact_info |-> <<>>,
     extraction_status |-> SUCCESS]

\* ContactInformation.has_contact_info
has_contact_info(info) ==
    \/ BagCardinality(info.phone_numbers) > 0
    \/ BagCardinality(info.email_addresses) > 0
    \/ BagCardinality(info.facebook_links) > 0
    \/ BagCardinality(info.instagram_links) > 0
    \/ BagCardinality(info.linkedin_links) > 0

\* the lists the three extractors can return for a page
page_lists(html_content) ==
    LET text_content == contact_text_content(html_content)
    IN  [phones : first_of_set(phone_numbers_found(text_content, html_content),
                               max_phone_numbers),
         emails : first_of_set(email_addresses_found(text_content, html_content),
                               max_email_addresses),
         facebook : first_of_set(social_links_found("facebook", text_content,
                                                    html_content),
                                 max_social_links_per_platform),
         instagram : first_of_set(social_links_found("instagram", text_content,
                                                     html_content),
                                  max_social_links_per_platform),
         linkedin : first_of_set(social_links_found("linkedin", text_content,
                                                    html_content),
                                 max_social_links_per_platform)]
NoLists ==
    [phones |-> {}, emails |-> {}, facebook |-> {}, instagram |-> {},
     linkedin |-> {}]
ListsItems(lists) ==
    lists.phones \cup lists.emails \cup lists.facebook \cup lists.instagram
    \cup lists.linkedin

\* list(set(items))
deduplicated(items) == SetToBag(BagToSet(items))

\* lines 651-672: the lists of the page appended to those of the record
extended(info, lists) ==
    [info EXCEPT !.phone_numbers = @ (+) SetToBag(lists.phones),
                 !.email_addresses = @ (+) SetToBag(lists.emails),
                 !.facebook_links = @ (+) SetToBag(lists.facebook),
                 !.instagram_links = @ (+) SetToBag(lists.instagram),
                 !.linkedin_links = @ (+) SetToBag(lists.linkedin)]

\* lines 689-706: the record returned after the loop
finished(info, crawled, with_info) ==
    LET unique == [info EXCEPT !.phone_numbers = deduplicated(@),
                               !.email_addresses = deduplicated(@),
                               !.facebook_links = deduplicated(@),
                               !.instagram_links = deduplicated(@),
                               !.linkedin_links = deduplicated(@),
                               !.pages_crawled = crawled,
                               !.pages_with_contact_info = with_info]
    IN  [unique EXCEPT !.extraction_status =
            IF has_contact_info(unique) THEN SUCCESS ELSE NO_CONTACT_INFO_FOUND]

---------------------------------------------------------------------------
(* The site the contact extractor meets *)

ContactDomain == <<"a", ".", "c", "o">>

A_contact == Href(None, <<"/", "c", "o", "n", "t", "a", "c", "t">>)
A_shop == Href(None, <<"/", "s", "h", "o", "p">>)
A_about_www == Href(Some(<<"w", "w", "w", ".", "A", ".", "c", "o">>), <<"/", "A", "b", "o", "u", "t">>)
A_external == Href(Some(<<"x", ".", "c", "o">>), <<"/", "c", "o", "n", "t", "a", "c", "t">>)
\* the anchors of the homepage, in document order
HomepageAnchors ==
    { <<>>,
      <<A_shop, A_contact>>,
      <<A_about_www, A_contact, A_shop>>,
      <<A_external, A_contact, A_contact>>,
      <<A_contact, MalformedHref>> }
ContactHomes == {"https", "http", "none"}

\* pages without markup
G_none == <<"h", "i">>
G_phone == <<"0", "1", "2", "1", " ", "4", "9", "6", " ", "0", "0", "0", "1">>
G_phones == <<"0", "1", "3", "1", " ", " ", "4", "9", "6", " ", "0", "0", "0", "2", " ", "0", "7", "1", "2", "3", "4", "5", "6", "7", "8", "9">>
G_email == <<"M", "a", "i", "l", " ", "A", "@", "b", ".", "c", "o">>
G_placeholder == <<"x", "@", "e", "x", "a", "m", "p", "l", "e", ".", "c", "o", "m", " ", "f", "a", "c", "e", "b", "o", "o", "k", ".", "c", "o", "m", "/", "l", "o", "g", "i", "n">>
G_social == <<"f", "a", "c", "e", "b", "o", "o", "k", ".", "c", "o", "m", "/", "a", "c", "m", "e", " ", "l", "i", "n", "k", "e", "d", "i", "n", ".", "c", "o", "m", "/", "i", "n", "/", "b", "o">>
G_all == <<"a", "@", "b", ".", "c", "o", " ", "(", "0", "1", "2", "1", ")", " ", "4", "9", "6", " ", "0", "0", "0", "1", "\n", "I", "n", "s", "t", "a", "g", "r", "a", "m", ".", "c", "o", "m", "/", "a", "c", "m", "e">>
ContactContents ==
    {G_none, G_phone, G_phones, G_email, G_placeholder, G_social, G_all}

PageResponse(status_code, text) ==
    [exc |-> "", status_code |-> status_code, text |-> text]
PageRequestException ==
    [exc |-> "RequestException", status_code |-> 0, text |-> <<>>]
ContactResponses ==
    {PageResponse(200, html) : html \in ContactContents}
    \cup {PageResponse(404, G_all), PageRequestException}

\* the extractors applied to each page of the site
PageLists == [html_content \in ContactContents |-> page_lists(html_content)]

---------------------------------------------------------------------------
(* ContactExtractor.extract_contact_info *)

PageEvent(url, response, lists) ==
    [url |-> url, response |-> response, lists |-> lists]

\* lines 611-622: the record created, the pages to crawl found
FindContactPages ==
    /\ ce_pc = "call"
    /\ \E home \in ContactHomes, anchors \in HomepageAnchors :
        LET target_urls == find_contact_pages(contact_info.domain, home, anchors)
        IN  IF target_urls.raised # ""
            THEN \* line 614 stands before the try of line 617
                 /\ ce_out' = target_urls
                 /\ ce_pc' = "done"
                 /\ unique_urls' = <<>>
            ELSE /\ unique_urls' = Unique(target_urls.value, Len(target_urls.value))
                 /\ ce_pc' = "crawl"
                 /\ UNCHANGED ce_out
    /\ ce_next' = 1
    /\ UNCHANGED <<ce_pages_crawled, pages_with_info, contact_info, ce_log>>
    /\ UNCHANGED not_contact_vars

\* lines 627-710: one pass of the loop over unique_urls, and after the last
\* pass the lists deduplicated and the record returned
CrawlPage ==
    /\ ce_pc = "crawl"
    /\ \E response \in ContactResponses :
        LET url == unique_urls[ce_next]
            ok == response.exc = "" /\ response.status_code = 200
        IN  \E lists \in (IF ok THEN PageLists[response.text] ELSE {NoLists}) :
            LET info == extended(contact_info, lists)
                crawled == IF ok THEN ce_pages_crawled + 1 ELSE ce_pages_crawled
                with_info == IF ListsItems(lists) # {}
                             THEN Append(pages_with_info, url)
                             ELSE pages_with_info
                over == \/ ce_next = Len(unique_urls)
                        \/ crawled >= max_pages_per_site
            IN  /\ ce_log' = Append(ce_log, PageEvent(url, response, lists))
                /\ ce_pages_crawled' = crawled
                /\ pages_with_info' = with_info
                /\ ce_next' = ce_next + 1
                /\ IF over
                   THEN /\ contact_info' = finished(info, crawled, with_info)
                        /\ ce_out' = Value(contact_info')
                        /\ ce_pc' = "done"
                   ELSE /\ contact_info' = info
                        /\ ce_pc' = "crawl"
                        /\ UNCHANGED ce_out
    /\ UNCHANGED unique_urls
    /\ UNCHANGED not_contact_vars

---------------------------------------------------------------------------
(* CompaniesHouseAPIClient._make_api_request *)

NoEndpoint == "none"
\* the endpoints of get_company_profile, get_registered_office_address and
\* get_company_officers
ChEndpoints == {"company_profile", "registered_office", "officers"}

\* the answers of the Companies House API
ChResponses ==
    {ApiResponse(200, TRUE, [company_number |-> "1"]),
     ApiResponse(401, TRUE, <<>>),
     ApiResponse(404, TRUE, <<>>),
     ApiResponse(429, TRUE, <<>>),
     ApiResponse(500, TRUE, <<>>),
     ApiRequestException}

\* _check_rate_limit: the counter after the check; window_over says that
\* 300 seconds have passed since start_time
check_rate_limit(made, window_over) ==
    IF window_over THEN 0
    ELSE IF made >= rate_limit THEN 0
    ELSE made

\* one frame of _make_api_request: the rate check, the request, and what
\* the answer leads to. On 429 the method sleeps and calls itself; the
\* interpreter raises RecursionError in the frame that would exceed its
\* limit, and no frame below catches it.
MakeApiRequest ==
    /\ ch_pc = "request"
    /\ \E window_over \in BOOLEAN, response \in ChResponses :
         LET made == check_rate_limit(requests_made, window_over) IN
         IF response.exc # ""
         THEN \* session.get raises requests.RequestException: line 238
              /\ requests_made' = made
              /\ ch_log' = Append(ch_log, 0)
              /\ ch_out' = Value(None)
              /\ ch_pc' = "done"
              /\ UNCHANGED ch_depth
         ELSE /\ requests_made' = made + 1
              /\ ch_log' = Append(ch_log, response.status_code)
              /\ IF response.status_code \in {401, 404}
                 THEN /\ ch_out' = Value(None)
                      /\ ch_pc' = "done"
                      /\ UNCHANGED ch_depth
                 ELSE IF response.status_code = 429
                 THEN IF ch_depth + 1 < recursion_limit
                      THEN /\ ch_depth' = ch_depth + 1
                           /\ UNCHANGED <<ch_pc, ch_out>>
                      ELSE /\ ch_out' = Raised("RecursionError")
                           /\ ch_pc' = "done"
                           /\ UNCHANGED ch_depth
                 ELSE IF response.status_code >= 400
                 THEN \* raise_for_status: an HTTPError, caught at line 238
                      /\ ch_out' = Value(None)
                      /\ ch_pc' = "done"
                      /\ UNCHANGED ch_depth
                 ELSE /\ ch_out' = Value(Some(response.data))
                      /\ ch_pc' = "done"
                      /\ UNCHANGED ch_depth
    /\ UNCHANGED ch_args
    /\ UNCHANGED not_ch_vars

\* the client is asked for another endpoint; requests_made stays
ChNextCall ==
    /\ ch_pc = "done"
    /\ ch_args' \in ChEndpoints
    /\ ch_pc' = "request"
    /\ ch_depth' = 0
    /\ ch_log' = <<>>
    /\ ch_out' = Value(None)
    /\ UNCHANGED requests_made
    /\ UNCHANGED not_ch_vars

---------------------------------------------------------------------------
(* The review screen and the website contact finder task *)

\* a WebsiteHuntingResult row, as far as the review and the task use it
HuntingRow(approved_domain, approved_by_human) ==
    [approved_domain |-> approved_domain, approved_by_human |-> approved_by_human]

\* task_website_hunting.py, lines 226-231: the row before the review
NotReviewed == HuntingRow(None, FALSE)

\* request.POST.get('domain'): None when the field is missing
PostedDomains == {None, Some(""), Some("a.co.uk"), Some("b.com")}

\* a WebsiteContactLookup row
ContactLookup(domain_searched, status) ==
    [domain_searched |-> domain_searched, status |-> status]

\* what extract_contact_info does when called: the status of the record it
\* returns, or an exception
ExtractorOutcomes == {"SUCCESS", "NO_CONTACT_INFO_FOUND", "CRAWL_ERROR", "raise"}

\* WebsiteReviewView.post, action 'approve' (views.py, lines 389-394)
ApprovePost(c, domain) ==
    /\ cf_pc # "off"
    /\ hunting_results' = [hunting_results EXCEPT ![c] = HuntingRow(domain, TRUE)]
    /\ UNCHANGED <<contact_lookups, cf_pc, companies_to_process, cf_next,
                   extractor_calls, processed, cf_summary>>
    /\ UNCHANGED not_finder_vars

\* the filter of run, lines 157-161: the companies ready for extraction
ready(c) ==
    /\ ~hunting_results[c].approved_domain.none
    /\ hunting_results[c].approved_by_human
    /\ contact_lookups[c].none

\* the rows of the query in the order of created_at, each with its
\* website_hunting_result as select_related loaded it
RECURSIVE selected(_)
selected(c) ==
    IF c > MaxCompanies THEN <<>>
    ELSE (IF ready(c)
          THEN <<[company |-> c, website_hunting_result |-> hunting_results[c]]>>
          ELSE <<>>) \o selected(c + 1)

\* run, lines 155-166: the query, and the return when it gives nothing
RunSelect ==
    /\ cf_pc = "idle"
    /\ LET rows == Take(selected(1), DEFAULT_BATCH_SIZE) IN
       IF rows = <<>>
       THEN /\ cf_summary' = "No companies ready for contact extraction"
            /\ UNCHANGED <<cf_pc, companies_to_process, cf_next>>
       ELSE /\ companies_to_process' = rows
            /\ cf_next' = 1
            /\ cf_pc' = "loop"
            /\ cf_summary' = ""
    /\ UNCHANGED <<hunting_results, contact_lookups, extractor_calls, processed>>
    /\ UNCHANGED not_finder_vars

\* if not approved_domain: None and the empty string
falsy(domain) == domain.none \/ domain.value = ""

\* lines 81-83: no approved domain, return False; the lookup is left as it is
no_domain_record(company, domain) == contact_lookups[company]

\* one pass of the loop of run: _process_contact_extraction for the next row
ProcessContactExtraction(outcome) ==
    /\ cf_pc = "loop"
    /\ cf_next <= Len(companies_to_process)
    /\ LET company == companies_to_process[cf_next].company
           approved_domain ==
               companies_to_process[cf_next].website_hunting_result.approved_domain
       IN  /\ IF falsy(approved_domain)
              THEN /\ contact_lookups' =
                          [contact_lookups EXCEPT
                              ![company] = no_domain_record(company, approved_domain)]
                   /\ UNCHANGED extractor_calls
              ELSE /\ extractor_calls' = extractor_calls \cup
                          {[company |-> company,
                            domain |-> approved_domain.value,
                            website_hunting_result |->
                                companies_to_process[cf_next].website_hunting_result]}
                   /\ contact_lookups' =
                          [contact_lookups EXCEPT ![company] =
                              Some(ContactLookup(approved_domain,
                                     IF outcome = "raise" THEN "PROCESSING_ERROR"
                                     ELSE outcome))]
           /\ processed' = processed \cup {company}
    /\ cf_next' = cf_next + 1
    /\ UNCHANGED <<hunting_results, cf_pc, companies_to_process, cf_summary>>
    /\ UNCHANGED not_finder_vars

\* lines 200-203: the summary of the run
RunReturn ==
    /\ cf_pc = "loop"
    /\ cf_next > Len(companies_to_process)
    /\ cf_pc' = "idle"
    /\ cf_summary' = "Website contact extraction completed"
    /\ UNCHANGED <<hunting_results, contact_lookups, companies_to_process, cf_next,
                   extractor_calls, processed>>
    /\ UNCHANGED not_finder_vars

---------------------------------------------------------------------------
(* Specifications *)

IdleCrawl ==
    /\ domains = <<>>
    /\ company_data = CD_none
    /\ skip_domains = <<>>
    /\ mainpc = "idle"
    /\ filtered_domains = <<>>
    /\ results = <<>>
    /\ waiting = 0
    /\ ranked = <<>>
    /\ task = <<>>
    /\ log = <<>>
    /\ ran = <<>>
    /\ waited = 0

IdleVat ==
    /\ vat_pc = "idle"
    /\ vat_name = <<>>
    /\ search_variations = <<>>
    /\ variation_index = 0
    /\ attempt = 0
    /\ vat_out = NoData
    /\ vat_trace = NoTrace

IdleHunter ==
    /\ query_version = 1
    /\ hunt_pc = "idle"
    /\ hunt_args = FindCall(HC_empty)
    /\ quota_remaining = None
    /\ hunt_log = <<>>
    /\ since_last = min_request_delay
    /\ last_gap = None
    /\ hunt_out = Value(<<>>)
    /\ hunt_prev = NoFailure

IdleLinkedIn ==
    /\ li_pc = "idle"
    /\ li_args = [company_name |-> <<>>, website |-> None]
    /\ li_response = ApiRequestException
    /\ li_out = linkedin_error_result(<<>>, None, "", "", NoLinkedInQuery)

IdlePhone ==
    /\ ph_pc = "idle"
    /\ ph_args = PhoneCall(UN_mobile, "compact", <<>>)
    /\ ph_out = {}

IdleContact ==
    /\ ce_pc = "idle"
    /\ unique_urls = <<>>
    /\ ce_next = 1
    /\ ce_pages_crawled = 0
    /\ pages_with_info = <<>>
    /\ contact_info = ContactInformation(<<>>)
    /\ ce_out = Value(ContactInformation(<<>>))
    /\ ce_log = <<>>

IdleCh ==
    /\ ch_pc = "idle"
    /\ ch_args = NoEndpoint
    /\ ch_depth = 0
    /\ requests_made = 0
    /\ ch_log = <<>>
    /\ ch_out = Value(None)

IdleFinder ==
    /\ hunting_results = <<>>
    /\ contact_lookups = <<>>
    /\ cf_pc = "off"
    /\ companies_to_process = <<>>
    /\ cf_next = 1
    /\ extractor_calls = {}
    /\ processed = {}
    /\ cf_summary = ""

\* a call of crawl_and_rank_websites
CrawlCall(ds, cds, skips) ==
    /\ domains \in ds
    /\ company_data \in cds
    /\ skip_domains \in skips
    /\ mainpc = "call"
    /\ filtered_domains = <<>>
    /\ results = <<>>
    /\ waiting = 0
    /\ ranked = <<>>
    /\ task = <<>>
    /\ log = <<>>
    /\ ran = <<>>
    /\ waited = 0

\* the crawler's steps against a given web
CrawlNext(web) ==
    \/ Enter
    \/ \E i \in Tasks : WorkerStart(i)
    \/ \E i \in Tasks : ExtractLinks(i, web)
    \/ \E i \in Tasks : Phase1(i, web)
    \/ \E i \in Tasks : Phase2(i, web)
    \/ Collect
    \/ Timeout
    \/ Return

\* Spec: a list of domains crawled by the pool and ranked
Init ==
    /\ CrawlCall({Take(AllDomains, n) : n \in 0..MaxDomains},
                 {CD_none, CD_both},
                 {<<>>, <<"a.co.uk">>, <<"b.com", "z.com">>, AllDomains})
    /\ IdleVat
    /\ IdleHunter
    /\ IdleLinkedIn
    /\ IdlePhone
    /\ IdleContact
    /\ IdleCh
    /\ IdleFinder

Next == CrawlNext(PlainWeb)

Spec == Init /\ [][Next]_vars

\* CrawlSpec: one domain, against every page the crawl can meet
CrawlInit ==
    /\ CrawlCall({Take(AllDomains, 1)},
                 {CD_cn, CD_vat, CD_both, CD_numeric},
                 {<<>>})
    /\ IdleVat
    /\ IdleHunter
    /\ IdleLinkedIn
    /\ IdlePhone
    /\ IdleContact
    /\ IdleCh
    /\ IdleFinder

CrawlSpecNext == CrawlNext(RichWeb)

CrawlSpec == CrawlInit /\ [][CrawlSpecNext]_vars

\* PoolSpec: more domains than workers, with the clock of the pool's deadline
PoolInit ==
    /\ CrawlCall({Take(AllDomains, n) : n \in 1..MaxPoolDomains},
                 {CD_both},
                 {<<>>})
    /\ IdleVat
    /\ IdleHunter
    /\ IdleLinkedIn
    /\ IdlePhone
    /\ IdleContact
    /\ IdleCh
    /\ IdleFinder

PoolNext ==
    \/ Enter
    \/ \E i \in Tasks : WorkerStart(i)
    \/ \E i \in Tasks : ExtractLinks(i, SmallWeb)
    \/ \E i \in Tasks : Phase1(i, SmallWeb)
    \/ \E i \in Tasks : Phase2(i, SmallWeb)
    \/ Tick
    \/ Collect
    \/ DeadlineTimeout
    \/ Return

PoolSpec == PoolInit /\ [][PoolNext]_vars

\* VatSpec: one VAT lookup
VatInit ==
    /\ IdleCrawl
    /\ vat_pc = "call"
    /\ vat_name \in VatNames
    /\ search_variations = <<>>
    /\ variation_index = 0
    /\ attempt = 0
    /\ vat_out = NoData
    /\ vat_trace = NoTrace
    /\ IdleHunter
    /\ IdleLinkedIn
    /\ IdlePhone
    /\ IdleContact
    /\ IdleCh
    /\ IdleFinder

VatNext == VatCall \/ VatAttempt

VatSpec == VatInit /\ [][VatNext]_vars

\* HunterSpec: one search client, called again and again
HunterInit ==
    /\ IdleCrawl
    /\ IdleVat
    /\ query_version \in {1, 2}
    /\ hunt_pc = "call"
    /\ hunt_args \in HunterCalls
    /\ quota_remaining = None
    /\ hunt_log = <<>>
    /\ since_last = min_request_delay
    /\ last_gap = None
    /\ hunt_out = Value(<<>>)
    /\ hunt_prev = NoFailure
    /\ IdleLinkedIn
    /\ IdlePhone
    /\ IdleContact
    /\ IdleCh
    /\ IdleFinder

HunterNext ==
    \/ HunterValidate
    \/ HunterQuota
    \/ HunterSearch
    \/ HunterBuild
    \/ HunterExtract
    \/ HunterNextCall

HunterSpec == HunterInit /\ [][HunterNext]_vars

\* RateSpec: one search client and the clock of its rate limit
RateInit ==
    /\ IdleCrawl
    /\ IdleVat
    /\ query_version \in {1, 2}
    /\ hunt_pc = "call"
    /\ hunt_args \in RateCalls
    /\ quota_remaining = None
    /\ hunt_log = <<>>
    /\ since_last = min_request_delay
    /\ last_gap = None
    /\ hunt_out = Value(<<>>)
    /\ hunt_prev = NoFailure
    /\ IdleLinkedIn
    /\ IdlePhone
    /\ IdleContact
    /\ IdleCh
    /\ IdleFinder

RateNext ==
    \/ HunterValidate
    \/ HunterQuota
    \/ HunterSearch
    \/ HunterTick
    \/ RateNextCall

RateSpec == RateInit /\ [][RateNext]_vars

\* LinkedInSpec: one call of find_linkedin_profiles
LinkedInInit ==
    /\ IdleCrawl
    /\ IdleVat
    /\ IdleHunter
    /\ li_pc = "call"
    /\ li_args \in [company_name : LinkedInNames, website : LinkedInWebsites]
    /\ li_response = ApiRequestException
    /\ li_out = linkedin_error_result(<<>>, None, "", "", NoLinkedInQuery)
    /\ IdlePhone
    /\ IdleContact
    /\ IdleCh
    /\ IdleFinder

LinkedInNext == LinkedInValidate \/ LinkedInSearch

LinkedInSpec == LinkedInInit /\ [][LinkedInNext]_vars

\* PhoneSpec: the phone extractor on a page that carries one number
PhoneInit ==
    /\ IdleCrawl
    /\ IdleVat
    /\ IdleHunter
    /\ IdleLinkedIn
    /\ ph_pc = "call"
    /\ ph_args \in PhoneCalls
    /\ ph_out = {}
    /\ IdleContact
    /\ IdleCh
    /\ IdleFinder

PhoneNext == ExtractPhoneNumbers

PhoneSpec == PhoneInit /\ [][PhoneNext]_vars

\* ContactSpec: one call of extract_contact_info
ContactInit ==
    /\ IdleCrawl
    /\ IdleVat
    /\ IdleHunter
    /\ IdleLinkedIn
    /\ IdlePhone
    /\ ce_pc = "call"
    /\ unique_urls = <<>>
    /\ ce_next = 1
    /\ ce_pages_crawled = 0
    /\ pages_with_info = <<>>
    /\ contact_info = ContactInformation(ContactDomain)
    /\ ce_out = Value(ContactInformation(<<>>))
    /\ ce_log = <<>>
    /\ IdleCh
    /\ IdleFinder

ContactNext == FindContactPages \/ CrawlPage

ContactSpec == ContactInit /\ [][ContactNext]_vars

\* ChSpec: one Companies House client, called again and again
ChInit ==
    /\ IdleCrawl
    /\ IdleVat
    /\ IdleHunter
    /\ IdleLinkedIn
    /\ IdlePhone
    /\ IdleContact
    /\ ch_pc = "request"
    /\ ch_args \in ChEndpoints
    /\ ch_depth = 0
    /\ requests_made = 0
    /\ ch_log = <<>>
    /\ ch_out = Value(None)
    /\ IdleFinder

ChNext == MakeApiRequest \/ ChNextCall

ChSpec == ChInit /\ [][ChNext]_vars

\* FinderSpec: the review screen and the runs of the contact finder task
FinderInit ==
    /\ IdleCrawl
    /\ IdleVat
    /\ IdleHunter
    /\ IdleLinkedIn
    /\ IdlePhone
    /\ IdleContact
    /\ IdleCh
    /\ hunting_results = [c \in 1..MaxCompanies |-> NotReviewed]
    /\ contact_lookups = [c \in 1..MaxCompanies |-> None]
    /\ cf_pc = "idle"
    /\ companies_to_process = <<>>
    /\ cf_next = 1
    /\ extractor_calls = {}
    /\ processed = {}
    /\ cf_summary = ""

FinderNext ==
    \/ \E c \in 1..MaxCompanies, domain \in PostedDomains : ApprovePost(c, domain)
    \/ RunSelect
    \/ \E outcome \in ExtractorOutcomes : ProcessContactExtraction(outcome)
    \/ RunReturn

FinderSpec == FinderInit /\ [][FinderNext]_vars

---------------------------------------------------------------------------
(* Claims about the precision crawler *)

\* every WebsiteScoreV3 the crawler holds: returned by a crawl, recorded by
\* the caller, or in the returned list
ProducedResults ==
    {task[i].result : i \in {j \in Tasks : task[j].st = "done"}}
    \cup Range(results) \cup Range(ranked)

BothOnTarget(r) ==
    /\ r.company_number_match.found
    /\ r.company_number_match.page_type = "TARGET"
    /\ r.vat_number_match.found
    /\ r.vat_number_match.page_type = "TARGET"

\* C1: every result has a total_score from 0.0 to 2.0, and the score is 2.0
\* exactly when the company number and the VAT number were both matched on
\* a TARGET page.
C1_ScoreRange ==
    \A r \in ProducedResults :
        /\ r.total_score >= 0
        /\ r.total_score <= 200
        /\ (r.total_score = 200) <=> BothOnTarget(r)

\* the returned list holds a crawl with the full score, matched on a page
\* other than the homepage
C1_Witness ==
    /\ mainpc = "done"
    /\ \E k \in 1..Len(ranked) :
         /\ ranked[k].total_score = 200
         /\ ranked[k].company_number_match.page_url.path # <<>>

Phase2Events(i) ==
    {k \in 1..Len(log[i]) : log[i][k].phase = "NON_TARGET"}

\* C2: when phase 1 found both identifiers, phase 2 does not start: the task
\* never stands at phase 2 with both found, and a crawl whose two matches
\* come from phase 1 has requested no page in phase 2 and counts no
\* non-target page.
C2_Phase2Skipped ==
    \A i \in Tasks :
        /\ task[i].st = "phase2" =>
             ~(task[i].company_number_match.found /\ task[i].vat_number_match.found)
        /\ (task[i].st = "done" /\ BothOnTarget(task[i].result)) =>
             /\ Phase2Events(i) = {}
             /\ task[i].result.non_target_pages_crawled = 0
             /\ task[i].result.search_phases_completed = <<"Phase 1: Target pages">>

\* a crawl whose phase 1 fetched a target page and found both identifiers
C2_Witness ==
    \E i \in Tasks :
        /\ task[i].st = "done"
        /\ BothOnTarget(task[i].result)
        /\ task[i].result.target_pages_crawled >= 1
        /\ \E k \in 1..Len(log[i]) : log[i][k].phase = "TARGET"

\* the entries the caller recorded for futures it gave up on
TimedOut == {k \in 1..Len(results) : results[k].processing_notes = "Timeout or error"}

\* C3 (as claimed): a domain whose future passes the pool deadline is
\* recorded with status TIMEOUT_ERROR and score 0, and is not crawled again.
C3_TimeoutStatus ==
    \A k \in TimedOut :
        /\ results[k].crawl_status = "TIMEOUT_ERROR"
        /\ results[k].total_score = 0
        /\ Cardinality({i \in Tasks : task[i].domain = results[k].domain}) = 1

\* the domains left by the skip list
Remaining == {d \in Range(domains) : d \notin Range(skip_domains)}

ValidCall == company_data.company_number # <<>> \/ company_data.vat_number # <<>>

\* C4: the returned list has exactly one result for each domain left by the
\* skip list, whichever crawls failed or timed out; what was recorded for a
\* domain is its crawl's own result or a failed result with score 0.
C4_OneResultPerDomain ==
    /\ (mainpc = "done" /\ ValidCall) =>
         /\ Len(ranked) = Cardinality(Remaining)
         /\ \A d \in Remaining :
              Cardinality({k \in 1..Len(ranked) : ranked[k].domain = d}) = 1
    /\ \A k \in 1..Len(results) :
         /\ results[k].domain = filtered_domains[k]
         /\ \/ task[k].st = "done" /\ results[k] = task[k].result
            \/ /\ results[k].crawl_status = "CRAWL_ERROR"
               /\ results[k].total_score = 0
    /\ \A r \in ProducedResults : r.crawl_status = "CRAWL_ERROR" => r.total_score = 0

\* two domains: one crawl failed or timed out, the other scored
C4_Witness ==
    /\ mainpc = "done"
    /\ Len(ranked) = 2
    /\ ranked[1].total_score > 0
    /\ ranked[2].crawl_status = "CRAWL_ERROR"
    /\ ranked[2].domain = domains[1]

\* C5: the returned list is in descending order of total_score and, for
\* equal scores, of pages_crawled.
C5_Ranked ==
    \A i, j \in 1..Len(ranked) :
        i < j =>
            \/ ranked[i].total_score > ranked[j].total_score
            \/ /\ ranked[i].total_score = ranked[j].total_score
               /\ ranked[i].pages_crawled >= ranked[j].pages_crawled

\* the sort moved an entry: equal scores, ordered by the pages crawled
C5_Witness ==
    /\ mainpc = "done"
    /\ Len(ranked) = 2
    /\ ranked[1].total_score = ranked[2].total_score
    /\ ranked[1].pages_crawled > ranked[2].pages_crawled
    /\ ranked[1].domain = domains[2]

\* C6: a domain of the skip list is never crawled (no task, no request) and
\* never appears in the results.
C6_SkipList ==
    \A d \in Range(skip_domains) :
        /\ \A i \in Tasks : task[i].domain # d
        /\ \A r \in ProducedResults : r.domain # d
        /\ d \notin Range(filtered_domains)

\* a call whose skip list removed one of two domains and crawled the other
C6_Witness ==
    /\ mainpc = "done"
    /\ Len(domains) = 2
    /\ domains[1] \in Range(skip_domains)
    /\ Len(ranked) = 1
    /\ log[1] # <<>>

\* C7 (as claimed): without company_number and vat_number the call ends in
\* an InvalidInput outcome.
C7_InvalidInputOutcome ==
    (mainpc = "done" /\ ~ValidCall) =>
        \E k \in 1..Len(ranked) : ranked[k].crawl_status = "INVALID_INPUT"

\* C7 (amended): without company_number and vat_number the call returns an
\* empty list, which carries no status, and crawls no domain.
C7_EmptyListNoCrawl ==
    ~ValidCall =>
        /\ task = <<>>
        /\ log = <<>>
        /\ results = <<>>
        /\ mainpc \in {"call", "done"}
        /\ mainpc = "done" => ranked = <<>>

\* the call has returned for a company without identifiers and with domains
\* the skip list leaves
C7_Witness ==
    /\ mainpc = "done"
    /\ ~ValidCall
    /\ Remaining # {}

Identifiers == {"company_number", "vat_number"}

\* the match a crawl frame or a result holds for an identifier
MatchOf(r, id) ==
    IF id = "company_number" THEN r.company_number_match ELSE r.vat_number_match

\* the pages of a phase on which _check_exact_matches saw the identifier
Checks(i, phase, id) ==
    {k \in 1..Len(log[i]) :
        /\ log[i][k].op = "check"
        /\ log[i][k].phase = phase
        /\ IF id = "company_number"
           THEN log[i][k].matches.company_number_found
           ELSE log[i][k].matches.vat_number_found}

\* the requests of a phase
Gets(i, phase) ==
    {k \in 1..Len(log[i]) : log[i][k].op = "get" /\ log[i][k].phase = phase}

Earliest(S) == CHOOSE k \in S : \A j \in S : k <= j

\* a match made in phase 1, on the first target page that showed the
\* identifier
IsPhase1Match(i, id, m) ==
    /\ m.found
    /\ m.page_type = "TARGET"
    /\ m.score_weight = 100
    /\ m.page_url = log[i][Earliest(Checks(i, "TARGET", id))].url
    /\ IsTargetUrl(m.page_url)

\* C19: a match found in phase 1 is never overwritten by phase 2: an
\* identifier seen on a TARGET page keeps page_type TARGET, weight 1.0 and
\* the URL of the phase-1 page, in the frame that enters phase 2 and in the
\* final result, whatever the NON_TARGET pages of phase 2 contain.
C19_Phase1MatchKept ==
    \A i \in Tasks : \A id \in Identifiers :
        Checks(i, "TARGET", id) # {} =>
            /\ task[i].st = "phase2" => IsPhase1Match(i, id, MatchOf(task[i], id))
            /\ task[i].st = "done" =>
                 IsPhase1Match(i, id, MatchOf(task[i].result, id))

\* a finished crawl that saw the company number on a target page in phase 1
\* and again on a non-target page in phase 2
C19_Witness ==
    \E i \in Tasks :
        /\ task[i].st = "done"
        /\ Checks(i, "TARGET", "company_number") # {}
        /\ Checks(i, "NON_TARGET", "company_number") # {}
        /\ task[i].result.vat_number_match.page_type = "NON_TARGET"

\* both identifiers were seen in the phase before entry k of the log
BothSeenBefore(i, phase, k) ==
    \A id \in Identifiers : \E j \in Checks(i, phase, id) : j < k

\* the pages of a phase answered with status 200
Fetched(i, phase) ==
    {k \in 1..Len(log[i]) : log[i][k].op = "check" /\ log[i][k].phase = phase}

\* C20: every crawl requests at most max_target_pages TARGET pages in
\* phase 1 and at most max_additional_pages NON_TARGET pages in phase 2;
\* no page of a phase is requested after both identifiers were found in
\* that phase; and pages_crawled is target_pages_crawled plus
\* non_target_pages_crawled, each the number of pages of its phase that
\* answered 200.
C20_PageCaps ==
    /\ \A i \in Tasks :
         /\ Cardinality(Gets(i, "TARGET")) <= max_target_pages
         /\ Cardinality(Gets(i, "NON_TARGET")) <= max_additional_pages
         /\ \A phase \in {"TARGET", "NON_TARGET"} :
              \A k \in Gets(i, phase) : ~BothSeenBefore(i, phase, k)
         /\ task[i].st = "done" =>
              /\ task[i].result.target_pages_crawled =
                    Cardinality(Fetched(i, "TARGET"))
              /\ task[i].result.non_target_pages_crawled =
                    Cardinality(Fetched(i, "NON_TARGET"))
    /\ \A r \in ProducedResults :
         /\ r.pages_crawled = r.target_pages_crawled + r.non_target_pages_crawled
         /\ r.target_pages_crawled <= max_target_pages
         /\ r.non_target_pages_crawled <= max_additional_pages

\* phase 1 used its whole allowance without finding both identifiers, and
\* phase 2 stopped after its first page, which showed both, leaving the
\* homepage unrequested although the allowance of phase 2 was not used up
C20_Witness ==
    \E i \in Tasks :
        /\ task[i].st = "done"
        /\ Cardinality(Gets(i, "TARGET")) = max_target_pages
        /\ Cardinality(Gets(i, "NON_TARGET")) = 1
        /\ max_additional_pages > 1
        /\ \A k \in Gets(i, "NON_TARGET") : log[i][k].url.path # P_home
        /\ \A id \in Identifiers : Checks(i, "NON_TARGET", id) # {}
        /\ task[i].result.pages_crawled = 2

---------------------------------------------------------------------------
(* Claims about the VAT lookup *)

VatSuccess == vat_pc = "done" /\ vat_out.search_status = "SUCCESS"

\* C8 (as claimed): a VAT number returned with status SUCCESS matches
\* ^GB\d{9}$ as it stands, without spaces and with an upper-case GB.
C8_ReturnedVatFormat ==
    VatSuccess => IsGBNineDigits(vat_out.vat_number)

\* the search term of the last request
LastTerm == vat_out.search_terms[Len(vat_out.search_terms)]

\* C9: on success search_terms is the variants up to and including the one
\* that succeeded, in generation order; a lookup of a name that is not blank
\* which ends without success returns VAT_NOT_FOUND with vat_number
\* NOT_FOUND and every variant in search_terms. Either way the lookup ends
\* with a VATData.
C9_SearchTerms ==
    LET variants == sanitize_company_name(vat_name) IN
    /\ VatSuccess =>
         /\ vat_out.search_terms = SubSeq(variants, 1, Len(vat_out.search_terms))
         /\ Len(vat_out.search_terms) = variation_index + 1
         /\ Len(vat_out.search_terms) \in 1..Len(variants)
         /\ vat_trace.last_type = "results_found"
         /\ parse_vat_results(vat_trace.html, LastTerm) # <<>>
    /\ (vat_pc = "done" /\ vat_name # <<>> /\ vat_out.search_status # "SUCCESS") =>
         /\ vat_out.search_status = "VAT_NOT_FOUND"
         /\ vat_out.vat_number = NOT_FOUND
         /\ vat_out.search_terms = variants
    /\ vat_pc = "done" => vat_out # NoData
    /\ vat_pc = "loop" => variation_index < Len(search_variations)

\* a success on the second of three variants
C9_Witness ==
    /\ VatSuccess
    /\ Len(sanitize_company_name(vat_name)) = 3
    /\ Len(vat_out.search_terms) = 2

SameNameIgnoringCase(a, b) == UpperName(a) = UpperName(b)

\* C10 (as claimed): from a table of more than one row a VAT number is
\* accepted only from a row whose company name is the submitted variant,
\* case ignored.
C10_MultiRowExactMatch ==
    (VatSuccess /\ Len(vat_trace.html.rows) > 1) =>
        \E k \in 1..Len(vat_trace.html.rows) :
            /\ SameNameIgnoringCase(vat_trace.html.rows[k].company_name, LastTerm)
            /\ vat_trace.html.rows[k].vat_number = vat_out.vat_number

\* the rows of the last page that have four cells and a VAT number which,
\* upper-cased and without spaces, is GB and nine digits
UsableRows ==
    {k \in 1..Len(vat_trace.html.rows) :
        /\ vat_trace.html.rows[k].cells >= 4
        /\ IsGBNineDigits(RemoveBlanks(Upper(vat_trace.html.rows[k].vat_number)))}

\* C10 (amended): counting only the rows with four cells and a VAT number
\* of valid format: from more than one such row a VAT number is accepted
\* only from one whose company name is the submitted variant, case ignored;
\* a single such row is accepted without a name match; and a results page
\* that yields no match moves the lookup to the next variant with no retry.
C10_UsableRowsExactMatch ==
    /\ VatSuccess =>
         /\ UsableRows # {}
         /\ \E k \in UsableRows :
              /\ vat_trace.html.rows[k].vat_number = vat_out.vat_number
              /\ \/ Cardinality(UsableRows) = 1
                 \/ SameNameIgnoringCase(vat_trace.html.rows[k].company_name, LastTerm)
    /\ (vat_pc = "loop" /\ vat_trace.last_type = "results_found") =>
         /\ attempt = 0
         /\ variation_index >= 1
         /\ \/ UsableRows = {}
            \/ /\ Cardinality(UsableRows) > 1
               /\ \A k \in UsableRows :
                    ~SameNameIgnoringCase(vat_trace.html.rows[k].company_name,
                                          search_variations[variation_index])

\* two usable rows, and the one accepted is the second, named as the
\* variant but in another case
C10_Witness ==
    /\ VatSuccess
    /\ Cardinality(UsableRows) = 2
    /\ vat_trace.html.rows[2].vat_number = vat_out.vat_number
    /\ vat_trace.html.rows[2].company_name # LastTerm
    /\ vat_trace.html.rows[1].vat_number # vat_out.vat_number

---------------------------------------------------------------------------
(* Claims about the search client *)

FindDone == hunt_pc = "done" /\ hunt_args.op = "find_company_website"

\* the answer to the search request of the call in hand
SearchResponse == hunt_log[CHOOSE k \in SearchGets : TRUE].response
\* the answer to its quota check
StatusResponse == hunt_log[CHOOSE k \in StatusGets : TRUE].response

\* the causes of failure the contract tells apart
ClaimedCauses == {"401", "429", "402", "network"}

\* C11 (as claimed): a search call that failed on a 401, a 429, a 402 or a
\* network error returns a typed failure without raising, and two calls
\* that failed on different ones of these causes return different failure
\* outcomes.
C11_TypedFailures ==
    (FindDone /\ SearchGets # {} /\ CauseOf(SearchResponse) \in ClaimedCauses) =>
        /\ hunt_out.raised = ""
        /\ hunt_out.value.search_status \notin {"SUCCESS", "NO_WEBSITES_FOUND"}
        /\ (hunt_prev.cause \in ClaimedCauses
             /\ hunt_prev.cause # CauseOf(SearchResponse)) =>
               <<hunt_out.value.search_status, hunt_out.value.processing_notes>>
                   # <<hunt_prev.status, hunt_prev.notes>>

\* the quota check was answered with a count of remaining requests that is
\* zero or less
ReportsNoneLeft(response) ==
    /\ response.exc = ""
    /\ response.status_code < 400
    /\ response.json_valid
    /\ "remaining_requests" \in DOMAIN response.data
    /\ response.data.remaining_requests <= 0

\* the quota check failed: check_api_quota returned None
QuotaCheckFailed(response) ==
    \/ response.exc # ""
    \/ response.status_code >= 400
    \/ ~response.json_valid

\* C12: when the quota check reports remaining_requests <= 0,
\* find_company_website returns QUOTA_EXCEEDED with no websites and sends
\* no search request; when the quota check fails, the search request is
\* still sent.
C12_QuotaGate ==
    /\ (FindDone /\ StatusGets # {} /\ ReportsNoneLeft(StatusResponse)) =>
         /\ hunt_out.raised = ""
         /\ hunt_out.value.search_status = "QUOTA_EXCEEDED"
         /\ hunt_out.value.websites_found = <<>>
         /\ SearchGets = {}
    /\ (FindDone /\ StatusGets # {} /\ QuotaCheckFailed(StatusResponse)) =>
         /\ Cardinality(SearchGets) = 1
         /\ hunt_out.value.search_status # "QUOTA_EXCEEDED"
    /\ (hunt_pc = "search" /\ StatusGets # {}) => ~ReportsNoneLeft(StatusResponse)

\* a call stopped by a quota check that reported exactly zero requests left
C12_Witness ==
    /\ FindDone
    /\ StatusGets # {}
    /\ ReportsNoneLeft(StatusResponse)
    /\ StatusResponse.data.remaining_requests = 0
    /\ hunt_out.value.search_status = "QUOTA_EXCEEDED"

ExtractDone ==
    hunt_pc = "done" /\ hunt_args.op = "_extract_websites_from_results"

\* a domain lower-cased and without a leading www.
Normalized(domain) == strip_www(Lower(domain))

\* the results with an http or https URL of the given domain
ResultsOf(domain) ==
    LET organic == hunt_args.search_results.organic IN
    {k \in 1..Len(organic) :
        /\ organic[k].url.prefix \in {"http://", "https://"}
        /\ Normalized(organic[k].url.netloc) = domain}

\* C13 (as claimed): the extracted list has no two entries that are equal
\* after lower-casing and stripping a leading www., every entry is the
\* domain of an http or https result URL, and the entries are in the order
\* of their first occurrence in the results.
C13_ExtractedDomains ==
    ExtractDone =>
        LET out == hunt_out.value IN
        /\ \A i \in 1..Len(out) : ResultsOf(out[i]) # {}
        /\ \A i, j \in 1..Len(out) :
             i < j =>
                /\ \E k \in ResultsOf(out[i]) : \A l \in ResultsOf(out[j]) : k < l
                /\ Normalized(out[i]) # Normalized(out[j])

\* every identifier of the call is empty or white space
AllBlank(identifiers) ==
    \A k \in 1..Len(identifiers) : \A n \in 1..Len(identifiers[k]) :
        IsSpace(identifiers[k][n])

BlankBuild ==
    /\ hunt_pc = "done"
    /\ hunt_args.op = "_build_search_query"
    /\ AllBlank(hunt_args.identifiers)

BlankFind ==
    /\ FindDone
    /\ ~hunt_args.company_data.empty
    /\ AllBlank(<<hunt_args.company_data.company_number,
                  hunt_args.company_data.vat_number,
                  hunt_args.company_data.company_name>>)

\* C14 (as claimed): when every identifier is blank, building the query
\* ends in an invalid-input outcome returned as a typed result, nothing is
\* raised, and no search request is sent.
C14_BlankIdentifiersTyped ==
    (BlankBuild \/ BlankFind) =>
        /\ hunt_out.raised = ""
        /\ SearchGets = {}

\* C14 (amended): a query builder handed only blank identifiers raises
\* ValueError and sends nothing; find_company_website never hands a builder
\* such a list: with a blank company number, and so with every identifier
\* blank, it returns the typed status INVALID_IDENTIFIER with no websites
\* before any quota or search request, and a call that goes on to search
\* has a query built.
C14_BlankIdentifiersRejected ==
    /\ BlankBuild =>
         /\ hunt_out.raised = "ValueError"
         /\ hunt_log = <<>>
    /\ (FindDone /\ AllBlank(<<hunt_args.company_data.company_number>>)) =>
         /\ hunt_out.raised = ""
         /\ hunt_out.value.search_status = "INVALID_IDENTIFIER"
         /\ hunt_out.value.websites_found = <<>>
         /\ hunt_log = <<>>
    /\ (hunt_pc = "search" \/ (FindDone /\ SearchGets # {})) =>
         /\ ~AllBlank(hunter_identifiers(hunt_args.company_data))
         /\ build_search_query(query_version,
                               hunter_identifiers(hunt_args.company_data),
                               SearchKeywords, ExcludedDomains).raised = ""
    /\ FindDone =>
         /\ hunt_out.raised = ""
         /\ hunt_out.value.search_status # "PARSING_ERROR"

\* a builder was handed two identifiers, one empty and one of white space
C14_Witness ==
    /\ BlankBuild
    /\ Len(hunt_args.identifiers) = 2
    /\ hunt_out.raised = "ValueError"

---------------------------------------------------------------------------
(* Claims about the LinkedIn finder *)

LinkedInDone ==
    li_pc = "done" /\ li_out.search_status \in {"SUCCESS", "NO_RESULTS_FOUND"}

\* the profiles returned, of both lists
ReturnedProfiles == Range(li_out.company_urls) \cup Range(li_out.employee_urls)

\* the company name, lower-cased, occurs in the description
NameInDescription(description) ==
    IsSubstr(Lower(Strip(li_args.company_name)), Lower(description))

\* the domain of the website occurs in the description
DomainInDescription(description) ==
    /\ ~li_args.website.none
    /\ IsSubstr(strip_www(Lower(li_args.website.value.netloc)), Lower(description))

\* C15: every profile in company_urls or employee_urls has a score above 0,
\* the score being 1 if the lower-cased company name occurs in the result's
\* description plus 2 if the domain occurs in it; a result whose
\* description contains neither is in neither list.
C15_RelevanceGate ==
    LinkedInDone =>
        LET organic == li_response.data.organic IN
        /\ \A r \in ReturnedProfiles :
             /\ r.score > 0
             /\ r.score = (IF NameInDescription(r.description) THEN 1 ELSE 0)
                          + (IF DomainInDescription(r.description) THEN 2 ELSE 0)
             /\ r.position \in 1..Len(organic)
             /\ organic[r.position].url = r.url
             /\ organic[r.position].description = Some(r.description)
        /\ \A k \in 1..Len(organic) :
             (~NameInDescription(organic[k].description.value)
              /\ ~DomainInDescription(organic[k].description.value)) =>
                 \A r \in ReturnedProfiles : r.position # k

\* a call that returned a company profile scored 2, for the domain alone,
\* and left out a LinkedIn profile whose description has neither the name
\* nor the domain
C15_Witness ==
    /\ LinkedInDone
    /\ Len(li_response.data.organic) = 2
    /\ Len(li_out.company_urls) = 1
    /\ li_out.company_urls[1].score = 2
    /\ li_out.employee_urls = <<>>
    /\ \E k \in 1..2 :
         /\ li_response.data.organic[k].url = LU_in
         /\ li_response.data.organic[k].description = Some(LD_none)

---------------------------------------------------------------------------
(* Claims about the contact extractor *)

\* C16: each of the six documented test numbers is rejected by the phone
\* extractor in every formatting style: compact, with spaces, with brackets,
\* with dashes and in +44 international form, so a page that carries nothing
\* but such a number yields no phone number.
C16_TestNumbersRejected ==
    (ph_pc = "done" /\ ph_args.number \in TestNumbers) => ph_out = {}

\* the extractor accepts a number in use in each of the formats
C16_FormatsSupported ==
    \A style \in PhoneStyles :
        FormatPhone(UN_birmingham, style)
            \in phone_numbers_found(FormatPhone(UN_birmingham, style),
                                    FormatPhone(UN_birmingham, style))

\* a call of extract_contact_info that is over, and one that returned
ContactOver == ce_pc = "done"
ContactReturned == ContactOver /\ ce_out.raised = ""

\* the five lists of a ContactInformation
ContactLists(info) ==
    {info.phone_numbers, info.email_addresses, info.facebook_links,
     info.instagram_links, info.linkedin_links}
ContactItems(info) == UNION {BagToSet(list) : list \in ContactLists(info)}

\* no list of the returned record holds an entry twice
Deduplicated ==
    ContactReturned =>
        \A list \in ContactLists(ce_out.value) :
            \A item \in BagToSet(list) : CopiesIn(item, list) = 1

\* no list of the returned record is longer than its limit
Capped ==
    ContactReturned =>
        /\ BagCardinality(ce_out.value.phone_numbers) <= max_phone_numbers
        /\ BagCardinality(ce_out.value.email_addresses) <= max_email_addresses
        /\ BagCardinality(ce_out.value.facebook_links)
              <= max_social_links_per_platform
        /\ BagCardinality(ce_out.value.instagram_links)
              <= max_social_links_per_platform
        /\ BagCardinality(ce_out.value.linkedin_links)
              <= max_social_links_per_platform

\* C17: in the record extract_contact_info returns, each category is
\* deduplicated and capped: at most max_phone_numbers phone numbers, at most
\* max_email_addresses email addresses and at most
\* max_social_links_per_platform links per platform, however many pages were
\* crawled.
C17_DedupAndCaps == Deduplicated /\ Capped

\* the pages answered with status 200 so far, and what was extracted from them
FetchedPages ==
    {k \in 1..Len(ce_log) :
        ce_log[k].response.exc = "" /\ ce_log[k].response.status_code = 200}
ExtractedItems == UNION {ListsItems(ce_log[k].lists) : k \in FetchedPages}

\* the call returns a record
ReturnsRecord == ContactOver => ContactReturned

\* SUCCESS exactly when an item was extracted from a fetched page, and
\* NO_CONTACT_INFO_FOUND otherwise
StatusFollowsItems ==
    ContactReturned =>
        ce_out.value.extraction_status =
            (IF ExtractedItems # {} THEN SUCCESS ELSE NO_CONTACT_INFO_FOUND)

\* every page of unique_urls is requested in turn whatever the earlier pages
\* answered, and what the fetched pages gave stays in the record
PageErrorsTolerated ==
    /\ \A k \in 1..Len(ce_log) : ce_log[k].url = unique_urls[k]
    /\ ContactReturned => Len(ce_log) = Len(unique_urls)
    /\ ce_pc = "crawl" => ContactItems(contact_info) = ExtractedItems
    /\ ContactReturned => ContactItems(ce_out.value) = ExtractedItems

\* C18: extract_contact_info returns status SUCCESS exactly when at least one
\* contact item was extracted from a successfully fetched page and
\* NO_CONTACT_INFO_FOUND otherwise; a fetch error on one page only skips that
\* page and never removes the items accumulated from the pages before it.
C18_StatusAndPartialFailure ==
    ReturnsRecord /\ StatusFollowsItems /\ PageErrorsTolerated

---------------------------------------------------------------------------
(* The worker pool of crawl_and_rank_websites *)

\* C21: during one crawl_and_rank_websites call, at no time are more than
\* max_concurrent_sites domains being crawled simultaneously
C21_PoolBound == Cardinality(Running) <= max_concurrent_sites

\* every worker is busy and a domain waits for a free one
C21_Witness ==
    /\ Cardinality(Running) = max_concurrent_sites
    /\ \E i \in Tasks : task[i].st = "queued"

---------------------------------------------------------------------------
(* The politeness delay of _crawl_pages_phase *)

\* the places of the page fetches of the two phases in the log of task i
PageFetches(i) ==
    {k \in 1..Len(log[i]) : log[i][k].op = "get" /\ log[i][k].phase # "DISCOVER"}

\* fetch l is the page fetch that follows fetch k
Consecutive(i, k, l) ==
    /\ k < l
    /\ ~\E j \in PageFetches(i) : k < j /\ j < l

\* time.sleep(delay_between_requests) ran between the places k and l
SleptBetween(i, k, l) ==
    \E j \in (k + 1)..(l - 1) : log[i][j].op = "sleep"

\* C22: within one domain's crawl any two consecutive page fetches are
\* separated by the politeness delay, also when the earlier fetch failed
\* with a network error
C22_PolitenessDelay ==
    \A i \in Tasks : \A k, l \in PageFetches(i) :
        Consecutive(i, k, l) => SleptBetween(i, k, l)

---------------------------------------------------------------------------
(* The sessions and the retries of the VAT lookup *)

\* the step sends a request to the VAT service
SendsRequest == vat_trace'.requests = vat_trace.requests + 1

\* C23: every VAT scrape attempt, first try or retry, is sent on a newly
\* created session: the session of a request is one created after the
\* session of every earlier request of the lookup
C23_FreshSession ==
    [][SendsRequest =>
          /\ vat_trace'.last_used > vat_trace.last_used
          /\ vat_trace'.last_used > vat_trace.sessions]_vars

\* a retry has been sent: the second request for the same variant
C23_Witness ==
    /\ vat_pc = "loop"
    /\ attempt > 0
    /\ vat_trace.requests >= 2
    /\ vat_trace.last_type = "soft_block"

\* the response types after which the same variation is tried again: a soft
\* block, a request that failed, an attempt that raised
Retried == {"soft_block", "failed", "raise"}

\* the pass of the retry loop leaves the lookup at the same variation
SameVariation ==
    /\ vat_pc = "loop"
    /\ vat_pc' = "loop"
    /\ variation_index' = variation_index

\* the pass of the retry loop ends the work on the variation
LeavesVariation ==
    \/ vat_pc' = "done"
    \/ variation_index' = variation_index + 1 /\ attempt' = 0

\* C24: for each name variant the VAT lookup sends at most max_retries
\* requests (every pass that stays at the variant counts attempt up, and no
\* pass starts at max_retries); a further request for the same variant is
\* sent only after a soft block or a network failure, a not_found response
\* moves to the next variant without a retry, and the lookup ends after at
\* most (number of variants x max_retries) passes and as many requests
C24_BoundedRetries ==
    /\ [](vat_pc = "loop" => attempt < max_retries)
    /\ [](vat_trace.requests <= Len(search_variations) * max_retries)
    /\ [](vat_trace.sessions <= Len(search_variations) * max_retries)
    /\ [][vat_pc = "loop" => (SameVariation \/ LeavesVariation)]_vars
    /\ [][SameVariation =>
            /\ attempt' = attempt + 1
            /\ vat_trace'.last_type \in Retried]_vars
    /\ [][vat_trace'.last_type = "not_found" => LeavesVariation]_vars

\* every variant was given max_retries requests, and no more were sent
C24_Witness ==
    /\ vat_pc = "done"
    /\ Len(search_variations) > 1
    /\ vat_trace.requests = Len(search_variations) * max_retries

\* the pass of the retry loop that ends the lookup ended in a soft block or
\* a failure
EndsBlocked ==
    /\ vat_pc = "loop"
    /\ vat_pc' = "done"
    /\ vat_trace'.last_type \in Retried

\* C30: when the attempts end in a soft block or a network failure (every
\* attempt of every variant, or only the last one), the lookup returns
\* VAT_NOT_FOUND with all variants in search_terms; SERVICE_BLOCKED and
\* NETWORK_ERROR are never returned
C30_BlockedLooksNotFound ==
    /\ [][EndsBlocked =>
            /\ vat_out'.search_status = "VAT_NOT_FOUND"
            /\ vat_out'.vat_number = NOT_FOUND
            /\ vat_out'.search_terms = search_variations]_vars
    /\ [](vat_out.search_status \notin {"SERVICE_BLOCKED", "NETWORK_ERROR"})

\* a name of one variant, every attempt of which was blocked or failed: a
\* pass that is followed by another for the same variant ended that way
C30_Witness ==
    /\ vat_pc = "done"
    /\ Len(search_variations) = 1
    /\ vat_trace.sessions = max_retries
    /\ vat_trace.last_type \in Retried
    /\ vat_out.search_status = "VAT_NOT_FOUND"

---------------------------------------------------------------------------
(* The rate limit of the search client *)

\* the requests of the call in hand
OutboundCalls == {k \in 1..Len(hunt_log) : hunt_log[k].op = "GET"}

\* C25: for one search client instance, every outbound API call (quota
\* check or search) is preceded by the rate-limit check, and any two
\* consecutive outbound calls start at least min_request_delay apart
C25_RateLimited ==
    /\ \A k \in OutboundCalls : k > 1 /\ hunt_log[k - 1].op = "rate_limit"
    /\ ~last_gap.none => last_gap.value >= min_request_delay

\* the search request followed the quota check by less than the delay, and
\* _rate_limit slept for the rest of it
C25_Witness ==
    /\ SearchGets # {}
    /\ StatusGets # {}
    /\ \E k \in SearchGets :
          /\ hunt_log[k - 1].slept > 0
          /\ hunt_log[k - 1].slept < min_request_delay

---------------------------------------------------------------------------
(* The retries of the Companies House client *)

\* the call in hand was answered 429 to the end
Only429 ==
    /\ ch_log # <<>>
    /\ \A k \in 1..Len(ch_log) : ch_log[k] = 429

\* C26: a Companies House API request that keeps receiving HTTP 429 is
\* retried only a bounded number of times and then returns a failure
C26_Bounded429Retries ==
    (ch_pc = "done" /\ Only429) => ch_out = Value(None)

---------------------------------------------------------------------------
(* The contact finder task and the review *)

\* ContactExtractor is invoked for a company only when its hunting result,
\* as the run loaded it, has approved_by_human true and a non-null approved
\* domain
InvokedWhenApproved ==
    \A call \in extractor_calls :
        /\ call.website_hunting_result.approved_by_human
        /\ ~call.website_hunting_result.approved_domain.none

\* the domain passed is the approved domain of that hunting result
PassesApprovedDomain ==
    \A call \in extractor_calls :
        Some(call.domain) = call.website_hunting_result.approved_domain

\* a company the task has processed has a WebsiteContactLookup record
ProcessedLeavesRecord ==
    \A c \in processed : ~contact_lookups[c].none

\* a company the task has processed is not selected by a later run
NotSelectedAgain ==
    cf_pc = "loop" =>
        \A k \in cf_next..Len(companies_to_process) :
            companies_to_process[k].company \notin processed

\* C27: the contact-extraction task invokes ContactExtractor for a company
\* only when its hunting result has approved_by_human true and a non-null
\* approved domain, passes exactly that approved domain, and after
\* processing a selected company leaves a WebsiteContactLookup record, so
\* that the company is not selected again by a later run
C27_ApprovedOnlyAndRecorded ==
    /\ InvokedWhenApproved
    /\ PassesApprovedDomain
    /\ ProcessedLeavesRecord
    /\ NotSelectedAgain

---------------------------------------------------------------------------
(* The deadline of the pool *)

\* C28: a domain receives the pool-deadline error result only if its own
\* crawl ran for the deadline; it is never recorded as failed because an
\* earlier domain of the batch was slow or because it waited for a free
\* worker
C28_OwnCrawlTimedOut ==
    \A k \in TimedOut : ran[k] >= pool_deadline

\* the entries of a list of results that are for the domain
EntriesFor(rs, domain) == {j \in 1..Len(rs) : rs[j].domain = domain}

\* C29: once a domain's future has passed the deadline and its error result
\* is recorded, the lists of the call hold exactly one entry for that
\* domain, with score 0, also when the abandoned worker finishes later and
\* finds matches
C29_LateResultDiscarded ==
    \A k \in TimedOut :
        /\ EntriesFor(results, results[k].domain) = {k}
        /\ results[k].total_score = 0
        /\ mainpc = "done" =>
              /\ Cardinality(EntriesFor(ranked, results[k].domain)) = 1
              /\ \A j \in EntriesFor(ranked, results[k].domain) :
                    ranked[j] = results[k]

\* the call has returned; a crawl that was given up finished afterwards and
\* found an identifier
C29_Witness ==
    /\ mainpc = "done"
    /\ \E k \in TimedOut :
          /\ task[k].st = "done"
          /\ task[k].result.total_score > 0

============================================================================
